---- MODULE Spec2Model ----
(***************************************************************************)
(* Model of terraformer's rendering core: the schema pruner                *)
(* (terraformutils/resource.go) and the HCL printer (hcl.go: assembly of   *)
(* the document, the AST sanitizer, the terraform 0.12 / 0.13 line         *)
(* rewrites).                                                              *)
(*                                                                         *)
(* Text is a sequence of one-character strings; bytes are compared by the  *)
(* position of the character in Alphabet, which lists the characters the   *)
(* model uses in ASCII order.                                              *)
(***************************************************************************)
EXTENDS Naturals, Integers, Sequences, FiniteSets, TLC

VARIABLES
    rItem,          \* pruner: r.Item
    itemIn,         \* pruner: r.Item as it was before the cleanup
    rFields,        \* conversion: InstanceState.Attributes, IgnoreKeys, AllowEmptyValues, AdditionalFields of r
    convOut,        \* conversion: what ConvertTFstate returned
    rSchema,        \* pruner: the resource's schema block (Absent: nil)
    cleanIn,        \* pruner: the map handed to cleanOptionalEmptyAttributes at the root
    prunePc,        \* pruner: "start", "pruned"; "off" in the other specifications
    argResources,   \* render: the resources argument of HclPrintResource
    argProviderData, \* render: its providerData argument
    argOutput,      \* render: its output argument (the format)
    argSort,        \* render: its sort argument
    permuted,       \* render: the same resources in another order
    runs,           \* render: what each call returned
    renderPc,       \* render: the calls made so far; "off" in the other specifications
    vNodes,         \* sanitizer: the file's items as the JSON parser built them
    vHints,         \* sanitizer: hintsByResource
    vSort,          \* sanitizer: sort
    vOut,           \* sanitizer: the file's items after visit
    visitPc,        \* sanitizer: "start", "visited"; "off" in the other specifications
    vStack,         \* sanitizer: currentPath, and its value at the entry and the return of every visit call
    tfIn,           \* 0.12 rewrite: the formatted text
    tfMaps,         \* 0.12 rewrite: mapsObjects
    tfOut,          \* 0.12 rewrite: the text returned
    tfPc,           \* 0.12 rewrite: "start", "adjusted"; "off" in the other specifications
    hdIn,           \* heredoc: the literal before handleHeredoc
    hdOut,          \* heredoc: the literal after it, or the panic
    hdPc,           \* heredoc: "start", "handled"; "off" in the other specifications
    outFiles        \* output files: the state of one OutputHclFiles call; Absent in the other specifications

pruneVars == <<rItem, itemIn, rFields, convOut, rSchema, cleanIn, prunePc>>
renderVars == <<argResources, argProviderData, argOutput, argSort, permuted, runs, renderPc>>
visitVars == <<vNodes, vHints, vSort, vOut, visitPc, vStack>>
tfVars == <<tfIn, tfMaps, tfOut, tfPc>>
hdVars == <<hdIn, hdOut, hdPc>>
outVars == <<outFiles>>
vars == <<pruneVars, renderVars, visitVars, tfVars, hdVars, outVars>>

\* ------------------------------------------------------------------ text

Alphabet ==
    << "\t", "\n", " ", "\"", "#", "$", "%", ",", "-", ".",
       "0", "1", "2", "3", "4", "5", "6", "7", "8", "9", ":", "<", "=",
       "E", "F", "O", "[", "\\", "]", "_",
       "a", "b", "c", "d", "e", "f", "g", "h", "i", "j", "k", "l", "m",
       "n", "o", "p", "q", "r", "s", "t", "u", "v", "w", "x", "y", "z",
       "{", "}" >>

Rank == [c \in {Alphabet[i] : i \in DOMAIN Alphabet} |->
            CHOOSE i \in DOMAIN Alphabet : Alphabet[i] = c]

\* Go's string comparison a < b: bytewise lexicographic.
RECURSIVE StrLess(_, _)
StrLess(a, b) ==
    IF b = <<>> THEN FALSE
    ELSE IF a = <<>> THEN TRUE
    ELSE IF Head(a) = Head(b) THEN StrLess(Tail(a), Tail(b))
    ELSE Rank[Head(a)] < Rank[Head(b)]

StrLeq(a, b) == a = b \/ StrLess(a, b)

\* strings.HasPrefix / strings.HasSuffix
HasPrefix(s, p) == Len(s) >= Len(p) /\ SubSeq(s, 1, Len(p)) = p
HasSuffix(s, p) == Len(s) >= Len(p) /\ SubSeq(s, Len(s) - Len(p) + 1, Len(s)) = p

\* strings.TrimPrefix / strings.TrimSuffix
TrimPrefix(s, p) == IF HasPrefix(s, p) THEN SubSeq(s, Len(p) + 1, Len(s)) ELSE s
TrimSuffix(s, p) == IF HasSuffix(s, p) THEN SubSeq(s, 1, Len(s) - Len(p)) ELSE s

\* the positions of s at which old starts
Matches(s, old) ==
    {i \in 1..(Len(s) + 1 - Len(old)) : SubSeq(s, i, i + Len(old) - 1) = old}

\* strings.Contains
Contains(s, p) == Matches(s, p) # {}

SetMin(S) == CHOOSE i \in S : \A j \in S : i <= j

\* strings.ReplaceAll(s, old, new) for a non-empty old: the matches are taken
\* from the left and do not overlap
RECURSIVE ReplaceFrom(_, _, _, _, _)
ReplaceFrom(s, old, new, found, from) ==
    LET later == {i \in found : i >= from}
    IN  IF later = {} THEN SubSeq(s, from, Len(s))
        ELSE SubSeq(s, from, SetMin(later) - 1) \o new
             \o ReplaceFrom(s, old, new, found, SetMin(later) + Len(old))

ReplaceAll(s, old, new) == ReplaceFrom(s, old, new, Matches(s, old), 1)

\* strings.Split(s, sep) for a non-empty sep: a sequence of texts
RECURSIVE SplitFrom(_, _, _, _)
SplitFrom(s, sep, found, from) ==
    LET later == {i \in found : i >= from}
    IN  IF later = {} THEN << SubSeq(s, from, Len(s)) >>
        ELSE << SubSeq(s, from, SetMin(later) - 1) >>
             \o SplitFrom(s, sep, found, SetMin(later) + Len(sep))

Split(s, sep) == SplitFrom(s, sep, Matches(s, sep), 1)

\* strings.Join(parts, sep)
RECURSIVE Join(_, _)
Join(parts, sep) ==
    IF parts = <<>> THEN <<>>
    ELSE IF Len(parts) = 1 THEN parts[1]
    ELSE Join(SubSeq(parts, 1, Len(parts) \div 2), sep) \o sep
         \o Join(SubSeq(parts, (Len(parts) \div 2) + 1, Len(parts)), sep)

\* the concatenation of a sequence of texts
Concat(parts) == Join(parts, <<>>)

Quote(s) == <<"\"">> \o s \o <<"\"">>

\* ---------------------------------------------------------------- values
\* A Go value held in a resource's Item (map[string]interface{}): the nil
\* interface, a string, a bool, a number, a []interface{} (nil or not) or a
\* map[string]interface{} (nil or not).  A map is a function from key texts.

NilV == [k |-> "nil"]
StrV(s) == [k |-> "str", s |-> s]
BoolV(b) == [k |-> "bool", b |-> b]
NumV(n) == [k |-> "num", n |-> n]
ListV(elems) == [k |-> "list", isnil |-> FALSE, elems |-> elems]
NilListV == [k |-> "list", isnil |-> TRUE, elems |-> <<>>]
MapV(m) == [k |-> "map", isnil |-> FALSE, m |-> m]
NilMapV == [k |-> "map", isnil |-> TRUE, m |-> <<>>]
\* a float64 NaN: a value that encoding/json refuses
NaNV == [k |-> "nan"]

\* a place holder of the model for "no value": a key that is not in a map,
\* a variable that a specification does not use
Absent == [k |-> "absent"]

\* the map with the entries <<key, value>> whose value is not Absent
MkMap(entries) ==
    LET present == {i \in DOMAIN entries : entries[i][2] # Absent}
    IN  [key \in {entries[i][1] : i \in present} |->
            entries[CHOOSE i \in present : entries[i][1] = key][2]]

\* delete(m, key)
MapDelete(m, key) == [x \in DOMAIN m \ {key} |-> m[x]]

\* ---------------------------------------------------------------- pruner
\* configschema.Block: attrs maps an attribute name to its flags, blocks maps
\* a nested block type's name to its Block.

EmptyMap == [x \in {} |-> NilV]

kA == <<"a">>
kD == <<"d">>
kQ == <<"q">>
kU == <<"u">>
kBlk == <<"b", "l", "k">>
kProject == <<"p", "r", "o", "j", "e", "c", "t">>
tX == <<"x">>
tEmpty == <<>>

\* value == nil || reflect.DeepEqual(value, reflect.Zero(reflect.TypeOf(value)).Interface()):
\* the zero value of a slice or map type is the nil slice or map, and DeepEqual
\* tells a nil one from an empty non-nil one.
IsZeroValue(value) ==
    CASE value.k = "nil" -> TRUE
      [] value.k = "str" -> value.s = <<>>
      [] value.k = "bool" -> value.b = FALSE
      [] value.k = "num" -> value.n = 0
      [] value.k = "list" -> value.isnil
      [] value.k = "map" -> value.isnil
      [] value.k = "nan" -> FALSE

\* the keys of data that the loop deletes: schema attributes that are Optional
\* and hold a zero value
DeletedKeys(data, blockSchema) ==
    {key \in DOMAIN data :
        /\ key \in DOMAIN blockSchema.attrs
        /\ blockSchema.attrs[key].optional
        /\ IsZeroValue(data[key])}

RECURSIVE cleanOptionalEmptyAttributes(_, _)
RECURSIVE cleanBlockList(_, _)

\* the loop over a []interface{} stored under a block-type key: every element
\* that is a map[string]interface{} is cleaned with the block's schema
cleanBlockList(list, blockSchema) ==
    [i \in DOMAIN list |->
        IF list[i].k = "map"
        THEN [list[i] EXCEPT !.m = cleanOptionalEmptyAttributes(list[i].m, blockSchema)]
        ELSE list[i]]

\* data is the function of a map[string]interface{}; the result is the map
\* after the in-place loop.  Each key is handled on its own, so the iteration
\* order of the map does not show.
cleanOptionalEmptyAttributes(data, blockSchema) ==
    LET kept == DOMAIN data \ DeletedKeys(data, blockSchema)
    IN  [key \in kept |->
            IF key \in DOMAIN blockSchema.blocks /\ data[key].k = "list"
            THEN [data[key] EXCEPT
                    !.elems = cleanBlockList(data[key].elems, blockSchema.blocks[key])]
            ELSE data[key]]

\* CleanInput with the root "project" deleted when the attribute is Optional
CleanInputOptional(item, resourceSchema) ==
    IF item.isnil \/ resourceSchema = Absent THEN Absent
    ELSE IF /\ kProject \in DOMAIN resourceSchema.attrs
            /\ resourceSchema.attrs[kProject].optional
         THEN [item EXCEPT !.m = MapDelete(item.m, kProject)]
         ELSE item

\* Resource.CleanUpOptionalEmptyAttributes, item being r.Item (NilMapV when
\* nil) and resourceSchema a Block or Absent (nil): the map that reaches
\* cleanOptionalEmptyAttributes, after the delete of a computed root "project";
\* Absent when the method returns early
CleanInput(item, resourceSchema) ==
    IF item.isnil \/ resourceSchema = Absent THEN Absent
    ELSE IF /\ kProject \in DOMAIN resourceSchema.attrs
            /\ resourceSchema.attrs[kProject].computed
         THEN [item EXCEPT !.m = MapDelete(item.m, kProject)]
         ELSE item

CleanUpOptionalEmptyAttributes(item, resourceSchema) ==
    IF CleanInput(item, resourceSchema) = Absent THEN item
    ELSE [item EXCEPT !.m = cleanOptionalEmptyAttributes(
                                CleanInput(item, resourceSchema).m, resourceSchema)]

\* ------------------------------------------------- pruner: specification

Flags(optional, computed) == [optional |-> optional, computed |-> computed]

\* the schema of the block nested in blk, and of blk itself
InnerSchema2 == [attrs |-> (kD :> Flags(TRUE, FALSE)), blocks |-> EmptyMap]
InnerSchema ==
    [attrs |-> (kD :> Flags(TRUE, FALSE)) @@ (kQ :> Flags(FALSE, FALSE))
                @@ (kProject :> Flags(TRUE, TRUE)),
     blocks |-> (kBlk :> InnerSchema2)]

FlagSamples == {Absent, Flags(TRUE, FALSE), Flags(FALSE, FALSE), Flags(TRUE, TRUE)}

SchemaSamples ==
    {[attrs |-> MkMap(<< <<kA, fa>>, <<kProject, fp>> >>),
      blocks |-> (kBlk :> InnerSchema)] :
        fa \in FlagSamples \ {Flags(TRUE, TRUE)}, fp \in FlagSamples}
    \cup {Absent}

ValueSamples ==
    {NilV, StrV(<<>>), StrV(tX), BoolV(FALSE), BoolV(TRUE), NumV(0), NumV(1),
     NilListV, ListV(<<>>), ListV(<<StrV(tX)>>), NilMapV, MapV(EmptyMap),
     MapV(kD :> StrV(<<>>))}

Inner2Samples == {MkMap(<< <<kD, d>> >>) : d \in {Absent, StrV(<<>>), StrV(tX)}}

InnerSamples ==
    {MkMap(<< <<kD, d>>, <<kQ, q>>, <<kProject, p>>, <<kBlk, b>> >>) :
        d \in {Absent, StrV(<<>>), StrV(tX), ListV(<<>>)},
        q \in {Absent, StrV(<<>>)},
        p \in {Absent, StrV(tX)},
        b \in {Absent} \cup {ListV(<<MapV(i)>>) : i \in Inner2Samples}}

BlockSamples ==
    {Absent, ListV(<<>>), NilListV, ListV(<<StrV(tX)>>)}
    \cup {ListV(<<MapV(i)>>) : i \in InnerSamples}
    \cup {MapV(i) : i \in InnerSamples}
    \cup {ListV(<<MapV(kD :> StrV(<<>>)), MapV(i)>>) : i \in Inner2Samples}

ItemSamples ==
    {MapV(MkMap(<< <<kA, a>>, <<kU, u>>, <<kProject, p>>, <<kBlk, b>> >>)) :
        a \in ValueSamples \cup {Absent},
        u \in {Absent, StrV(<<>>)},
        p \in {Absent, StrV(<<>>), StrV(tX)},
        b \in BlockSamples}
    \cup {NilMapV}

PruneIdle ==
    /\ rItem = Absent
    /\ itemIn = Absent
    /\ rFields = Absent
    /\ convOut = Absent
    /\ rSchema = Absent
    /\ cleanIn = Absent
    /\ prunePc = "off"

VisitIdle ==
    /\ vNodes = Absent
    /\ vHints = Absent
    /\ vSort = Absent
    /\ vOut = Absent
    /\ visitPc = "off"
    /\ vStack = Absent

TfIdle ==
    /\ tfIn = Absent
    /\ tfMaps = Absent
    /\ tfOut = Absent
    /\ tfPc = "off"

HdIdle ==
    /\ hdIn = Absent
    /\ hdOut = Absent
    /\ hdPc = "off"

OutIdle == outFiles = Absent

RenderIdle ==
    /\ argResources = Absent
    /\ argProviderData = Absent
    /\ argOutput = Absent
    /\ argSort = Absent
    /\ permuted = Absent
    /\ runs = Absent
    /\ renderPc = "off"

\* ------------------------------------------------------------------ json
\* The order in which a Go map hands out its keys is not fixed: iter names the
\* order of one run, "asc" or "desc" by key text.

RECURSIVE SortedSeq(_)
SortedSeq(S) ==
    IF S = {} THEN <<>>
    ELSE LET least == CHOOSE x \in S : \A y \in S : StrLeq(x, y)
         IN  <<least>> \o SortedSeq(S \ {least})

Reverse(seq) == [i \in DOMAIN seq |-> seq[Len(seq) + 1 - i]]

IterOrders == {"asc", "desc"}

\* for k := range m: the keys in the order of this run
IterKeys(S, iter) == IF iter = "asc" THEN SortedSeq(S) ELSE Reverse(SortedSeq(S))

\* sort.Strings
RECURSIVE InsertText(_, _)
InsertText(sorted, t) ==
    IF sorted = <<>> THEN <<t>>
    ELSE IF StrLess(t, Head(sorted)) THEN <<t>> \o sorted
    ELSE <<Head(sorted)>> \o InsertText(Tail(sorted), t)

RECURSIVE SortTexts(_)
SortTexts(seq) ==
    IF seq = <<>> THEN <<>> ELSE InsertText(SortTexts(Tail(seq)), Head(seq))

\* encoding/json's escapes inside a string literal
RECURSIVE JsonEscape(_)
JsonEscape(t) ==
    IF t = <<>> THEN <<>>
    ELSE (CASE Head(t) = "\"" -> <<"\\", "\"">>
            [] Head(t) = "\\" -> <<"\\", "\\">>
            [] Head(t) = "\n" -> <<"\\", "n">>
            [] Head(t) = "\t" -> <<"\\", "t">>
            [] OTHER -> <<Head(t)>>) \o JsonEscape(Tail(t))

Digits == <<"0", "1", "2", "3", "4", "5", "6", "7", "8", "9">>

RECURSIVE NumText(_)
\* the decimal text of a natural number
NumText(n) ==
    IF n < Len(Digits) THEN <<Digits[n + 1]>>
    ELSE NumText(n \div Len(Digits)) \o <<Digits[(n % Len(Digits)) + 1]>>

JNull == [k |-> "lit", text |-> <<"n", "u", "l", "l">>]

RECURSIVE JsonMarshal(_, _)
\* json.Marshal of a value, as the tree of the JSON text: an object lists its
\* members in sorted key order whatever order the map hands them out in
JsonMarshal(v, iter) ==
    CASE v.k \in {"nil", "nan"} -> JNull
      [] v.k = "str" -> [k |-> "lit", text |-> Quote(JsonEscape(v.s))]
      [] v.k = "bool" ->
            [k |-> "lit",
             text |-> IF v.b THEN <<"t", "r", "u", "e">> ELSE <<"f", "a", "l", "s", "e">>]
      [] v.k = "num" -> [k |-> "lit", text |-> NumText(v.n)]
      [] v.k = "list" ->
            IF v.isnil THEN JNull
            ELSE [k |-> "arr", elems |-> [i \in DOMAIN v.elems |-> JsonMarshal(v.elems[i], iter)]]
      [] v.k = "map" ->
            IF v.isnil THEN JNull
            ELSE LET keys == SortTexts(IterKeys(DOMAIN v.m, iter))
                 IN  [k |-> "obj",
                      members |-> [i \in DOMAIN keys |->
                                     [key |-> keys[i], val |-> JsonMarshal(v.m[keys[i]], iter)]]]

Spaces(n) == [i \in 1..n |-> " "]

RECURSIVE JsonLines(_, _)
\* the lines of json.MarshalIndent(v, "", "  ") for the tree j, the first line
\* without its indentation
JsonLines(j, depth) ==
    CASE j.k = "lit" -> << j.text >>
      [] j.k = "arr" ->
            IF j.elems = <<>> THEN << <<"[", "]">> >>
            ELSE << <<"[">> >>
                 \o Concat([i \in DOMAIN j.elems |->
                        LET ls == JsonLines(j.elems[i], depth + 1)
                            withComma == IF i < Len(j.elems)
                                         THEN [ls EXCEPT ![Len(ls)] = @ \o <<",">>]
                                         ELSE ls
                        IN  [withComma EXCEPT ![1] = Spaces(2 * (depth + 1)) \o @]])
                 \o << Spaces(2 * depth) \o <<"]">> >>
      [] j.k = "obj" ->
            IF j.members = <<>> THEN << <<"{", "}">> >>
            ELSE << <<"{">> >>
                 \o Concat([i \in DOMAIN j.members |->
                        LET ls == JsonLines(j.members[i].val, depth + 1)
                            withComma == IF i < Len(j.members)
                                         THEN [ls EXCEPT ![Len(ls)] = @ \o <<",">>]
                                         ELSE ls
                        IN  [withComma EXCEPT ![1] =
                                Spaces(2 * (depth + 1)) \o Quote(JsonEscape(j.members[i].key))
                                \o <<":", " ">> \o @]])
                 \o << Spaces(2 * depth) \o <<"}">> >>

JsonText(j) == Join(JsonLines(j, 0), <<"\n">>)

\* ------------------------------------------------------------- hcl: parse
\* The AST of hashicorp/hcl.  An ObjectItem is [keys, val], keys being the
\* token texts; a value node is an ObjectType [k |-> "otype", items], a
\* ListType [k |-> "ltype", list] or a LiteralType [k |-> "lit", text, heredoc].
\* An ObjectList is the sequence of its items.

ObjectItem(keys, val) == [keys |-> keys, val |-> val]
ObjectType(items) == [k |-> "otype", items |-> items]
ListType(list) == [k |-> "ltype", list |-> list]
LiteralType(text, heredoc) == [k |-> "lit", text |-> text, heredoc |-> heredoc]

RECURSIVE ParseValue(_)
\* the JSON parser's objectValue: the node of a JSON value, object keys
\* becoming quoted key tokens
ParseValue(j) ==
    CASE j.k = "lit" -> LiteralType(j.text, FALSE)
      [] j.k = "arr" -> ListType([i \in DOMAIN j.elems |-> ParseValue(j.elems[i])])
      [] j.k = "obj" ->
            ObjectType([i \in DOMAIN j.members |->
                          ObjectItem(<<Quote(JsonEscape(j.members[i].key))>>,
                                     ParseValue(j.members[i].val))])

AllObjectTypes(nodes) == \A i \in DOMAIN nodes : nodes[i].k = "otype"

RECURSIVE FlattenItem(_)
\* flattenObjects' frontier loop for one item: an object whose members are all
\* objects is replaced by one item per member with the keys joined, a list
\* whose elements are all objects by one item per element; the new items are
\* looked at again
FlattenItem(item) ==
    CASE item.val.k = "otype"
            /\ item.val.items # <<>>
            /\ AllObjectTypes([i \in DOMAIN item.val.items |-> item.val.items[i].val]) ->
                Concat([i \in DOMAIN item.val.items |->
                          FlattenItem(ObjectItem(item.keys \o item.val.items[i].keys,
                                                 item.val.items[i].val))])
      [] item.val.k = "ltype"
            /\ item.val.list # <<>>
            /\ AllObjectTypes(item.val.list) ->
                Concat([i \in DOMAIN item.val.list |->
                          FlattenItem(ObjectItem(item.keys, item.val.list[i]))])
      [] OTHER -> <<item>>

RECURSIVE FlattenObjectList(_)
RECURSIVE FlattenNode(_)
\* flattenObjects: ast.Walk rebuilds every ObjectList from the top down
FlattenObjectList(items) ==
    LET flat == Concat([i \in DOMAIN items |-> FlattenItem(items[i])])
    IN  [i \in DOMAIN flat |-> ObjectItem(flat[i].keys, FlattenNode(flat[i].val))]

FlattenNode(n) ==
    CASE n.k = "otype" -> ObjectType(FlattenObjectList(n.items))
      [] n.k = "ltype" -> ListType([i \in DOMAIN n.list |-> FlattenNode(n.list[i])])
      [] OTHER -> n

\* hclParser.Parse of the JSON text whose tree is j: the file's ObjectList, or
\* an error when the text is not a JSON object
hclParserParse(j) ==
    IF j.k = "obj"
    THEN [err |-> FALSE, nodes |-> FlattenObjectList(ParseValue(j).items)]
    ELSE [err |-> TRUE, nodes |-> <<>>]

\* ------------------------------------------------------------- hcl: print
\* hclPrinter.Fprint.  A printed line is [t, raw]: raw marks the lines of a
\* heredoc after its first, which the printer never indents.  The alignment of
\* the "=" signs of neighbouring one-line items is not modelled.

Line(t) == [t |-> t, raw |-> FALSE]

Indent(lines) ==
    [i \in DOMAIN lines |->
        IF lines[i].raw \/ lines[i].t = <<>> THEN lines[i]
        ELSE [lines[i] EXCEPT !.t = <<" ", " ">> \o @]]

RECURSIVE PrintNode(_)
RECURSIVE PrintItem(_)
RECURSIVE PrintBody(_)

\* an item: its keys, "=" after a single key (Assign is valid), its value
PrintItem(item) ==
    LET head == Join(item.keys, <<" ">>) \o <<" ">>
                \o (IF Len(item.keys) = 1 THEN <<"=", " ">> ELSE <<>>)
        val == PrintNode(item.val)
    IN  [val EXCEPT ![1] = [@ EXCEPT !.t = head \o @]]

\* the items of a block body, a blank line between two neighbours of which one
\* takes several lines
PrintBody(items) ==
    IF items = <<>> THEN <<>>
    ELSE LET first == PrintItem(Head(items))
         IN  IF Len(items) = 1 THEN first
             ELSE first
                  \o (IF Len(first) > 1 \/ Len(PrintItem(items[2])) > 1
                      THEN <<Line(<<>>)>> ELSE <<>>)
                  \o PrintBody(Tail(items))

PrintNode(n) ==
    CASE n.k = "lit" ->
            IF n.heredoc
            THEN LET ls == Split(n.text, <<"\n">>)
                 IN  [i \in DOMAIN ls |-> [t |-> ls[i], raw |-> i > 1]]
            ELSE <<Line(n.text)>>
      [] n.k = "otype" ->
            IF n.items = <<>> THEN <<Line(<<"{", "}">>)>>
            ELSE <<Line(<<"{">>)>> \o Indent(PrintBody(n.items)) \o <<Line(<<"}">>)>>
      [] n.k = "ltype" ->
            IF \A i \in DOMAIN n.list : n.list[i].k = "lit" /\ ~n.list[i].heredoc
            THEN <<Line(<<"[">>
                        \o Join([i \in DOMAIN n.list |-> n.list[i].text], <<",", " ">>)
                        \o <<"]">>)>>
            ELSE <<Line(<<"[">>)>>
                 \o Indent(Concat([i \in DOMAIN n.list |->
                       LET ls == PrintNode(n.list[i])
                       IN  [ls EXCEPT ![Len(ls)] = [@ EXCEPT !.t = @ \o <<",">>]]]))
                 \o <<Line(<<"]">>)>>
      \* a node of no known type: nothing is written
      [] OTHER -> <<Line(<<>>)>>

LinesText(lines) == Join([i \in DOMAIN lines |-> lines[i].t], <<"\n">>)

\* the text of one item or one value node: the key that sortHclTree sorts by
FprintItem(item) == LinesText(PrintItem(item))
FprintNode(n) == LinesText(PrintNode(n))

RECURSIVE PrintFile(_)
\* the file's ObjectList: a blank line between every two items
PrintFile(items) ==
    IF items = <<>> THEN <<>>
    ELSE IF Len(items) = 1 THEN PrintItem(items[1])
    ELSE PrintItem(items[1]) \o <<Line(<<>>)>> \o PrintFile(Tail(items))

FprintFile(items) == LinesText(PrintFile(items))

\* --------------------------------------------------------- hcl: sanitizer

LowerCase == {"a", "b", "c", "d", "e", "f", "g", "h", "i", "j", "k", "l", "m",
              "n", "o", "p", "q", "r", "s", "t", "u", "v", "w", "x", "y", "z"}
UpperCase == {"E", "F", "O"}
DigitChars == {Digits[i] : i \in DOMAIN Digits}

\* const safeChars
safeChars == LowerCase \cup UpperCase \cup DigitChars \cup {"-", "_"}

RECURSIVE GoUnescape(_)
GoUnescape(t) ==
    IF Len(t) < 2 THEN t
    ELSE IF t[1] = "\\"
         THEN (CASE t[2] = "n" -> <<"\n">>
                 [] t[2] = "t" -> <<"\t">>
                 [] OTHER -> <<t[2]>>) \o GoUnescape(SubSeq(t, 3, Len(t)))
         ELSE <<t[1]>> \o GoUnescape(Tail(t))

\* key, err := strconv.Unquote(text); if err != nil { key = text }
UnquoteOrText(text) ==
    IF Len(text) >= 2 /\ text[1] = "\"" /\ text[Len(text)] = "\""
    THEN GoUnescape(SubSeq(text, 2, Len(text) - 1))
    ELSE text

\* _, err := strconv.Atoi(part); err == nil
IsInteger(part) == part # <<>> /\ \A i \in DOMAIN part : part[i] \in DigitChars

\* strconv.Itoa
Itoa(i) == NumText(i)

SelectSeqNonInt(parts) == SelectSeq(parts, LAMBDA part : ~IsInteger(part))

\* astSanitizer.buildLogicalPath
buildLogicalPath(currentPath) ==
    IF Len(currentPath) > 2
    THEN Join(SelectSeqNonInt(SubSeq(currentPath, 4, Len(currentPath))), <<".">>)
    ELSE <<>>

kResource == <<"r", "e", "s", "o", "u", "r", "c", "e">>
kProvider == <<"p", "r", "o", "v", "i", "d", "e", "r">>
kTerraform == <<"t", "e", "r", "r", "a", "f", "o", "r", "m">>

\* ResourceHints without the resource's name: the hints of any resource of
\* the type
ResourceHintsOfType(hints, currentPath) ==
    IF /\ Len(currentPath) >= 3
       /\ currentPath[1] = kResource
       /\ \E tn \in DOMAIN hints : tn[1] = currentPath[2]
    THEN hints[CHOOSE tn \in DOMAIN hints : tn[1] = currentPath[2]]
    ELSE <<>>

\* hintsByResource[resourceType][resourceName], the empty list when there is
\* none: hints is a function from <<type, name>> to the list of hint paths
ResourceHints(hints, currentPath) ==
    IF /\ Len(currentPath) >= 3
       /\ currentPath[1] = kResource
       /\ <<currentPath[2], currentPath[3]>> \in DOMAIN hints
    THEN hints[<<currentPath[2], currentPath[3]>>]
    ELSE <<>>

\* astSanitizer.isPathOrdered
isPathOrdered(hints, currentPath, path) ==
    \E i \in DOMAIN ResourceHints(hints, currentPath) :
        ResourceHints(hints, currentPath)[i] = path

\* whether a hint names a direct child key of the container at logicalPath
HintMatches(hint, logicalPath) ==
    /\ HasPrefix(hint, logicalPath)
    /\ Len(logicalPath) > 0
    /\ LET remainder == TrimPrefix(hint, logicalPath)
       IN  HasPrefix(remainder, <<".">>) /\ ~Contains(Tail(remainder), <<".">>)

\* the ObjectList case's unorderedKey: the child key of the first hint that
\* matches, the empty text when none does
UnorderedKey(hints, currentPath) ==
    LET logicalPath == buildLogicalPath(currentPath)
        resourceHints == ResourceHints(hints, currentPath)
        matching == {i \in DOMAIN resourceHints : HintMatches(resourceHints[i], logicalPath)}
    IN  IF matching = {} THEN <<>>
        ELSE LET first == CHOOSE i \in matching : \A j \in matching : i <= j
             IN  TrimPrefix(TrimPrefix(resourceHints[first], logicalPath), <<".">>)

\* sort.Slice by the printed text: [key, x] pairs, inserted from the left
RECURSIVE InsertByKey(_, _)
InsertByKey(sorted, e) ==
    IF sorted = <<>> THEN <<e>>
    ELSE IF StrLess(e.key, Head(sorted).key) THEN <<e>> \o sorted
    ELSE <<Head(sorted)>> \o InsertByKey(Tail(sorted), e)

RECURSIVE SortByKey(_)
SortByKey(pairs) ==
    IF pairs = <<>> THEN <<>>
    ELSE InsertByKey(SortByKey(SubSeq(pairs, 1, Len(pairs) - 1)), pairs[Len(pairs)])

\* sortHclTree on a []*ast.ObjectItem (SubSeq(s, 1, Len(s)) is s, built at once)
sortHclItems(items) ==
    LET sorted == SortByKey(SubSeq([i \in DOMAIN items |->
                                        [key |-> FprintItem(items[i]), x |-> items[i]]],
                                   1, Len(items)))
    IN  [i \in DOMAIN sorted |-> sorted[i].x]

\* sortHclTree on a []ast.Node
sortHclNodes(nodes) ==
    LET sorted == SortByKey(SubSeq([i \in DOMAIN nodes |->
                                        [key |-> FprintNode(nodes[i]), x |-> nodes[i]]],
                                   1, Len(nodes)))
    IN  [i \in DOMAIN sorted |-> sorted[i].x]

\* ----------------------------------------------------- json: unmarshal
\* json.Unmarshal into an interface{}, on the text itself.  A parse result is
\* [ok, v, i]: whether a value was read, the Go value, the position after it.

JsonSpace == {" ", "\n", "\t"}

RECURSIVE SkipSpace(_, _)
SkipSpace(t, i) == IF i <= Len(t) /\ t[i] \in JsonSpace THEN SkipSpace(t, i + 1) ELSE i

NoParse == [ok |-> FALSE, v |-> NilV, i |-> 0]

RECURSIVE ParseJsonString(_, _, _)
\* i is past the opening quote; acc is the decoded text so far
ParseJsonString(t, i, acc) ==
    IF i > Len(t) \/ t[i] = "\n" THEN NoParse
    ELSE IF t[i] = "\"" THEN [ok |-> TRUE, v |-> StrV(acc), i |-> i + 1]
    ELSE IF t[i] = "\\"
         THEN IF i + 1 > Len(t) THEN NoParse
              ELSE CASE t[i + 1] = "n" -> ParseJsonString(t, i + 2, Append(acc, "\n"))
                     [] t[i + 1] = "t" -> ParseJsonString(t, i + 2, Append(acc, "\t"))
                     [] t[i + 1] \in {"\"", "\\"} ->
                            ParseJsonString(t, i + 2, Append(acc, t[i + 1]))
                     [] OTHER -> NoParse
         ELSE ParseJsonString(t, i + 1, Append(acc, t[i]))

RECURSIVE ParseJsonNumber(_, _, _)
ParseJsonNumber(t, i, acc) ==
    IF i <= Len(t) /\ t[i] \in DigitChars
    THEN ParseJsonNumber(t, i + 1,
            acc * Len(Digits) + (CHOOSE d \in DOMAIN Digits : Digits[d] = t[i]) - 1)
    ELSE [ok |-> TRUE, v |-> NumV(acc), i |-> i]

RECURSIVE ParseJsonValue(_, _)
RECURSIVE ParseJsonMembers(_, _, _)
RECURSIVE ParseJsonElems(_, _, _)

\* i is at the first member's key or at the closing brace; acc is the map so far
ParseJsonMembers(t, i, acc) ==
    LET a == SkipSpace(t, i)
    IN  IF a > Len(t) \/ t[a] # "\"" THEN NoParse
        ELSE LET key == ParseJsonString(t, a + 1, <<>>)
                 c == SkipSpace(t, key.i)
             IN  IF ~key.ok \/ c > Len(t) \/ t[c] # ":" THEN NoParse
                 ELSE LET val == ParseJsonValue(t, c + 1)
                          e == SkipSpace(t, val.i)
                          m == (key.v.s :> val.v) @@ acc
                      IN  IF ~val.ok \/ e > Len(t) THEN NoParse
                          ELSE IF t[e] = "}" THEN [ok |-> TRUE, v |-> MapV(m), i |-> e + 1]
                          ELSE IF t[e] = "," THEN ParseJsonMembers(t, e + 1, m)
                          ELSE NoParse

ParseJsonElems(t, i, acc) ==
    LET val == ParseJsonValue(t, i)
        e == SkipSpace(t, val.i)
    IN  IF ~val.ok \/ e > Len(t) THEN NoParse
        ELSE IF t[e] = "]" THEN [ok |-> TRUE, v |-> ListV(Append(acc, val.v)), i |-> e + 1]
        ELSE IF t[e] = "," THEN ParseJsonElems(t, e + 1, Append(acc, val.v))
        ELSE NoParse

ParseJsonValue(t, i) ==
    LET a == SkipSpace(t, i)
    IN  IF a > Len(t) THEN NoParse
        ELSE CASE t[a] = "{" ->
                    LET b == SkipSpace(t, a + 1)
                    IN  IF b <= Len(t) /\ t[b] = "}"
                        THEN [ok |-> TRUE, v |-> MapV(EmptyMap), i |-> b + 1]
                        ELSE ParseJsonMembers(t, a + 1, EmptyMap)
               [] t[a] = "[" ->
                    LET b == SkipSpace(t, a + 1)
                    IN  IF b <= Len(t) /\ t[b] = "]"
                        THEN [ok |-> TRUE, v |-> ListV(<<>>), i |-> b + 1]
                        ELSE ParseJsonElems(t, a + 1, <<>>)
               [] t[a] = "\"" -> ParseJsonString(t, a + 1, <<>>)
               [] t[a] \in DigitChars -> ParseJsonNumber(t, a, 0)
               [] HasPrefix(SubSeq(t, a, Len(t)), <<"t", "r", "u", "e">>) ->
                    [ok |-> TRUE, v |-> BoolV(TRUE), i |-> a + 4]
               [] HasPrefix(SubSeq(t, a, Len(t)), <<"f", "a", "l", "s", "e">>) ->
                    [ok |-> TRUE, v |-> BoolV(FALSE), i |-> a + 5]
               [] HasPrefix(SubSeq(t, a, Len(t)), <<"n", "u", "l", "l">>) ->
                    [ok |-> TRUE, v |-> NilV, i |-> a + 4]
               [] OTHER -> NoParse

\* err := json.Unmarshal([]byte(text), &tmp): [ok, v]
JsonUnmarshal(t) ==
    LET r == ParseJsonValue(t, 1)
    IN  IF r.ok /\ SkipSpace(t, r.i) = Len(t) + 1 THEN r ELSE NoParse

\* ------------------------------------------------------ hcl: heredoc

HeredocPrefix == <<"\"", "<", "<">>

\* astSanitizer.handleHeredoc on a literal: [panic, n].  lines[1:len(lines)-1]
\* is a slice with low > high when the unwrapped text has no newline: the
\* runtime panics.
handleHeredoc(n) ==
    IF ~HasPrefix(n.text, HeredocPrefix) THEN [panic |-> FALSE, n |-> n]
    ELSE LET unquoted == SubSeq(n.text, 2, Len(n.text) - 1)
             text == ReplaceAll(ReplaceAll(unquoted, <<"\\", "n">>, <<"\n">>),
                                <<"\\", "t">>, <<>>)
             lines == Split(text, <<"\n">>)
         IN  IF Len(lines) < 2 THEN [panic |-> TRUE, n |-> n]
             ELSE LET jsonTest == ReplaceAll(
                                     Join(SubSeq(lines, 2, Len(lines) - 1), <<"\n">>),
                                     <<"\\", "\"">>, <<"\"">>)
                      tmp == JsonUnmarshal(jsonTest)
                      jsonData == JsonLines(JsonMarshal(tmp.v, "asc"), 0)
                  IN  [panic |-> FALSE,
                       n |-> LiteralType(
                               IF tmp.ok
                               THEN Join(<<lines[1]>> \o jsonData \o <<lines[Len(lines)]>>,
                                         <<"\n">>)
                               ELSE text,
                               TRUE)]

\* ------------------------------------------------------- hcl: visit
\* astSanitizer.visit.  cfg is [sort, hints]; currentPath is the sanitizer's
\* path at the call: every push on it is popped before the call returns.

\* NormalizeKey without the test for "--"
NormalizeKeyNoDashes(text) ==
    IF text # <<>> /\ text[1] = "\"" /\ text[Len(text)] = "\""
    THEN LET inner == SubSeq(text, 2, Len(text) - 1)
         IN  IF \A i \in DOMAIN inner : inner[i] \in safeChars THEN inner ELSE text
    ELSE text

\* visitObjectItem's rewrite of the first key
NormalizeKey(text) ==
    IF text # <<>> /\ text[1] = "\"" /\ text[Len(text)] = "\""
    THEN LET inner == SubSeq(text, 2, Len(text) - 1)
             safe == \A i \in DOMAIN inner : inner[i] \in safeChars
             v_str == IF HasPrefix(inner, <<"-", "-">>) THEN Quote(inner) ELSE inner
         IN  IF safe THEN v_str ELSE text
    ELSE text

\* OrderObjectList with the hinted key's items left out of the result
OrderObjectListRestOnly(items, cfg, currentPath) ==
    IF ~cfg.sort THEN items
    ELSE LET unorderedKey == UnorderedKey(cfg.hints, currentPath)
             isOrdered(item) == UnquoteOrText(item.keys[1]) = unorderedKey
         IN  IF unorderedKey # <<>>
             THEN sortHclItems(SelectSeq(items, LAMBDA item : ~isOrdered(item)))
             ELSE sortHclItems(items)

\* the ObjectList case after its items are visited: the hinted key's items
\* first and in their order, the others sorted; all sorted without a hint
OrderObjectList(items, cfg, currentPath) ==
    IF ~cfg.sort THEN items
    ELSE LET unorderedKey == UnorderedKey(cfg.hints, currentPath)
             isOrdered(item) == UnquoteOrText(item.keys[1]) = unorderedKey
         IN  IF unorderedKey # <<>>
             THEN SelectSeq(items, isOrdered)
                  \o sortHclItems(SelectSeq(items, LAMBDA item : ~isOrdered(item)))
             ELSE sortHclItems(items)

\* the ListType case after its elements are visited
OrderListType(list, cfg, currentPath) ==
    IF cfg.sort /\ ~isPathOrdered(cfg.hints, currentPath, buildLogicalPath(currentPath))
    THEN sortHclNodes(list)
    ELSE list

RECURSIVE visit(_, _, _)

\* visitObjectItem: the keys are pushed on currentPath for the visit of the
\* value and popped after it
visitObjectItem(o, cfg, currentPath) ==
    LET newKeys == [i \in DOMAIN o.keys |->
                        IF i = 1 THEN NormalizeKey(o.keys[i]) ELSE o.keys[i]]
    IN  ObjectItem(newKeys,
                   visit(o.val, cfg,
                         currentPath \o [i \in DOMAIN newKeys |-> UnquoteOrText(newKeys[i])]))

\* for _, item := range t.Items { v.visit(item) }
visitItems(items, cfg, currentPath) ==
    SubSeq([i \in DOMAIN items |-> visitObjectItem(items[i], cfg, currentPath)],
           1, Len(items))

\* the ObjectList case with the sort before the visit of the items
visitObjectListSortFirst(items, cfg, currentPath) ==
    visitItems(OrderObjectList(items, cfg, currentPath), cfg, currentPath)

\* case *ast.ObjectList
visitObjectList(items, cfg, currentPath) ==
    OrderObjectList(visitItems(items, cfg, currentPath), cfg, currentPath)

\* for i, item := range t.List: push the index, visit, pop
visitElems(list, cfg, currentPath) ==
    SubSeq([i \in DOMAIN list |-> visit(list[i], cfg, Append(currentPath, Itoa(i - 1)))],
           1, Len(list))

\* astSanitizer.visit on a value node; currentPath is left as it was found
visit(n, cfg, currentPath) ==
    CASE n.k = "otype" -> ObjectType(visitObjectList(n.items, cfg, currentPath))
      [] n.k = "ltype" ->
            ListType(OrderListType(visitElems(n.list, cfg, currentPath), cfg, currentPath))
      [] n.k = "lit" -> handleHeredoc(n).n
      \* default: " unknown type" is printed, the node is left as it is
      [] OTHER -> n

RECURSIVE NodePanics(_)
\* whether visit reaches a literal on which handleHeredoc panics
NodePanics(n) ==
    CASE n.k = "otype" -> \E i \in DOMAIN n.items : NodePanics(n.items[i].val)
      [] n.k = "ltype" -> \E i \in DOMAIN n.list : NodePanics(n.list[i])
      [] n.k = "lit" -> handleHeredoc(n).panic
      [] OTHER -> FALSE

\* ------------------------------------------------- hcl: currentPath
\* The sanitizer's currentPath through a visit.  A result is [currentPath,
\* calls]: the path when the call returns, and for the call and every call
\* below it [entry, exit, top], the path at its entry and at its return and
\* the index of the file's item it is under (0 for the file's own list).

\* &astSanitizer{...}: currentPath is nil
NoCalls == [currentPath |-> <<>>, calls |-> {}]

\* v.currentPath = append(v.currentPath, keys...)
PushKeys(currentPath, keys) == currentPath \o keys

\* PopKeys with one entry popped, however many keys were pushed
PopOneKey(currentPath, keys) == SubSeq(currentPath, 1, Len(currentPath) - 1)

\* v.currentPath = v.currentPath[:len(v.currentPath)-len(keys)]
PopKeys(currentPath, keys) == SubSeq(currentPath, 1, Len(currentPath) - Len(keys))

Call(entry, exit, top) == [entry |-> entry, exit |-> exit, top |-> top]

RECURSIVE visitPath(_, _, _)

\* visit on an ObjectItem: visitObjectItem pushes the keys, visits the value
\* and pops as many entries as it pushed
visitObjectItemPath(o, currentPath, top) ==
    LET keys == [i \in DOMAIN o.keys |->
                    UnquoteOrText(IF i = 1 THEN NormalizeKey(o.keys[i]) ELSE o.keys[i])]
        val == visitPath(o.val, PushKeys(currentPath, keys), top)
        exit == PopKeys(val.currentPath, keys)
    IN  [currentPath |-> exit,
         calls |-> val.calls \cup {Call(currentPath, exit, top)}]

RECURSIVE visitItemsPath(_, _, _, _)
\* for _, item := range t.Items { v.visit(item) }, from the item at i on
\* (a path has no negative length: the test has TLC compute the path of each
\* turn before the next one, not all of them at the end)
visitItemsPath(items, i, currentPath, top) ==
    IF i > Len(items) \/ Len(currentPath) < 0 THEN [currentPath |-> currentPath, calls |-> {}]
    ELSE LET first == visitObjectItemPath(items[i], currentPath, IF top = 0 THEN i ELSE top)
             rest == visitItemsPath(items, i + 1, first.currentPath, top)
         IN  [currentPath |-> rest.currentPath, calls |-> first.calls \cup rest.calls]

RECURSIVE visitElemsPath(_, _, _, _)
\* for i, item := range t.List: push the index, visit, pop it
visitElemsPath(list, i, currentPath, top) ==
    IF i > Len(list) \/ Len(currentPath) < 0 THEN [currentPath |-> currentPath, calls |-> {}]
    ELSE LET index == <<Itoa(i - 1)>>
             first == visitPath(list[i], PushKeys(currentPath, index), top)
             rest == visitElemsPath(list, i + 1, PopKeys(first.currentPath, index), top)
         IN  [currentPath |-> rest.currentPath, calls |-> first.calls \cup rest.calls]

\* visit on a value node: an ObjectType visits its ObjectList, which visits
\* its items; a literal and a node of no known type leave the path alone
visitPath(n, currentPath, top) ==
    LET below == CASE n.k = "otype" -> visitItemsPath(n.items, 1, currentPath, top)
                   [] n.k = "ltype" -> visitElemsPath(n.list, 1, currentPath, top)
                   [] OTHER -> [currentPath |-> currentPath, calls |-> {}]
    IN  [currentPath |-> below.currentPath,
         calls |-> below.calls \cup {Call(currentPath, below.currentPath, top)}]

\* sanitizer.visit(nodes) on the file's ObjectList
visitFilePath(nodes, currentPath) ==
    LET below == visitItemsPath(nodes, 1, currentPath, 0)
    IN  [currentPath |-> below.currentPath,
         calls |-> below.calls \cup {Call(currentPath, below.currentPath, 0)}]

\* ------------------------------------------------ line rewrites (0.12, 0.13)

\* \s and \w of Go's regexp, over the model's alphabet
SpaceChars == {" ", "\t", "\n"}
WordChars == LowerCase \cup UpperCase \cup DigitChars \cup {"_"}

RECURSIVE SkipChars(_, _, _)
\* the first position from i on whose character is not in set
SkipChars(line, i, set) ==
    IF i <= Len(line) /\ line[i] \in set THEN SkipChars(line, i + 1, set) ELSE i

AssignBrace == <<" ", "=", " ", "{">>
SpaceBrace == <<" ", "{">>

\* singletonListFix.MatchString(line): ^\s*\w+ = {
\* (\w+ is greedy and " = {" starts with a non-word character, so the word run
\* must be followed by it at once)
MatchesSingletonListFix(line) ==
    LET a == SkipChars(line, 1, SpaceChars)
        b == SkipChars(line, a, WordChars)
    IN  b > a /\ HasPrefix(SubSeq(line, b, Len(line)), AssignBrace)

\* singletonListFixEnd.MatchString(line): ^\s*}
MatchesEndBrace(line) ==
    LET a == SkipChars(line, 1, SpaceChars)
    IN  a <= Len(line) /\ line[a] = "}"

RECURSIVE TrimLeftChars(_, _)
TrimLeftChars(t, set) ==
    IF t # <<>> /\ Head(t) \in set THEN TrimLeftChars(Tail(t), set) ELSE t

RECURSIVE TrimRightChars(_, _)
TrimRightChars(t, set) ==
    IF t # <<>> /\ t[Len(t)] \in set THEN TrimRightChars(SubSeq(t, 1, Len(t) - 1), set) ELSE t

\* strings.Trim(t, " ") and strings.TrimSpace(t)
TrimBlanks(t) == TrimRightChars(TrimLeftChars(t, {" "}), {" "})
TrimSpace(t) == TrimRightChars(TrimLeftChars(t, SpaceChars), SpaceChars)

\* one turn of terraform12Adjustments' loop, on lines[i]: st is [lines, prefix]
Tf12Step(st, i, mapsObjects) ==
    LET line == st.lines[i]
    IN  IF MatchesEndBrace(line) /\ Len(st.prefix) > 0
        THEN [st EXCEPT !.prefix = SubSeq(st.prefix, 1, Len(st.prefix) - 1)]
        ELSE IF ~MatchesSingletonListFix(line) THEN st
        ELSE LET key == TrimBlanks(Split(line, AssignBrace)[1])
                 prefix == Append(st.prefix, key)
             IN  IF Join(prefix, <<".">>) \in mapsObjects
                 THEN [st EXCEPT !.prefix = prefix]
                 ELSE [lines |-> [st.lines EXCEPT ![i] = ReplaceAll(line, AssignBrace, SpaceBrace)],
                       prefix |-> prefix]

RECURSIVE Tf12Loop(_, _, _)
Tf12Loop(st, i, mapsObjects) ==
    IF i > Len(st.lines) THEN st
    ELSE Tf12Loop(Tf12Step(st, i, mapsObjects), i + 1, mapsObjects)

\* terraform12Adjustments
terraform12Adjustments(formatted, mapsObjects) ==
    Join(Tf12Loop([lines |-> Split(formatted, <<"\n">>), prefix |-> <<>>], 1, mapsObjects).lines,
         <<"\n">>)

kRequiredProviders ==
    <<"r", "e", "q", "u", "i", "r", "e", "d", "_", "p", "r", "o", "v", "i", "d", "e", "r", "s">>

RECURSIVE Suffixes(_)
\* the non-empty suffixes of a text
Suffixes(t) == IF t = <<>> THEN {} ELSE {t} \cup Suffixes(Tail(t))

\* requiredProvidersRe.MatchString(line): required_providers ".*" {  anywhere
MatchesRequiredProviders(line) ==
    \E suffix \in Suffixes(line) :
        /\ HasPrefix(suffix, kRequiredProviders \o <<" ", "\"">>)
        /\ Contains(SubSeq(suffix, Len(kRequiredProviders) + 3, Len(suffix)),
                    <<"\"", " ", "{">>)

\* terraform13Adjustments: [panic, text].  The scan for the closing brace reads
\* lines[inner] without a bound: past the last line the runtime panics.
terraform13Adjustments(formatted) ==
    LET lines == Split(formatted, <<"\n">>)
        hits == {i \in DOMAIN lines : MatchesRequiredProviders(lines[i])}
    IN  IF hits = {} THEN [panic |-> FALSE, text |-> Join(lines, <<"\n">>)]
        ELSE LET i == CHOOSE h \in hits : \A g \in hits : h <= g
                 parts == Split(TrimSpace(lines[i]), <<" ">>)
                 provider == ReplaceAll(parts[2], <<"\"">>, <<>>)
                 ends == {e \in (i + 1)..Len(lines) : MatchesEndBrace(lines[e])}
             IN  IF ends = {} THEN [panic |-> TRUE, text |-> <<>>]
                 ELSE LET inner == CHOOSE e \in ends : \A g \in ends : e <= g
                          innerBlock == [j \in 1..(inner - i - 1) |-> <<"\t">> \o lines[i + j]]
                          inserted == <<"\t", "\t">> \o provider \o <<" ", "=", " ", "{", "\n">>
                                      \o Join(innerBlock, <<"\n">>)
                                      \o <<"\n", "\t", "\t", "}">>
                          \* lines[i+1] is overwritten before lines[inner:] is
                          \* appended after lines[:i+2]
                          written == [[lines EXCEPT ![i] = <<"\t">> \o kRequiredProviders \o <<" ", "{">>]
                                        EXCEPT ![i + 1] = inserted]
                      IN  [panic |-> FALSE,
                           text |-> Join(SubSeq(written, 1, i + 1)
                                         \o SubSeq(written, inner, Len(written)),
                                         <<"\n">>)]

\* ------------------------------------------------------------ hcl: output

RECURSIVE JsonUnsupported(_)
\* whether json.MarshalIndent returns an UnsupportedValueError for v
JsonUnsupported(v) ==
    CASE v.k = "nan" -> TRUE
      [] v.k = "list" -> \E i \in DOMAIN v.elems : JsonUnsupported(v.elems[i])
      [] v.k = "map" -> \E key \in DOMAIN v.m : JsonUnsupported(v.m[key])
      [] OTHER -> FALSE

\* the pair jsonPrint returns for a value that marshals to the tree j
JsonPrinted(j) == [err |-> FALSE, bytes |-> JsonText(j), tree |-> j]

\* jsonPrint: json.MarshalIndent(data, "", "  "); on an error no bytes.
\* [err, bytes, tree], tree being the tree of the JSON text in bytes.
jsonPrint(data, iter) ==
    IF JsonUnsupported(data) THEN [err |-> TRUE, bytes |-> <<>>, tree |-> JNull]
    ELSE JsonPrinted(JsonMarshal(data, iter))

RECURSIVE InvalidHcl(_)
\* whether the text printed from these items is refused by the HCL parser that
\* hclPrinter.Format runs: a key that lost its quotes and is no identifier
InvalidHcl(items) ==
    \E i \in DOMAIN items :
        \/ LET key == items[i].keys[1]
           IN  key = <<>> \/ key[1] \notin (LowerCase \cup UpperCase \cup {"_", "\""})
        \/ items[i].val.k = "otype" /\ InvalidHcl(items[i].val.items)
        \/ items[i].val.k = "ltype"
            /\ \E j \in DOMAIN items[i].val.list :
                    items[i].val.list[j].k = "otype" /\ InvalidHcl(items[i].val.list[j].items)

\* the marker of the heredoc that a line opens, the empty text when it opens none
HeredocMarker(line) ==
    LET parts == Split(line, <<" ", "=", " ", "<", "<">>)
    IN  IF Len(parts) = 2 /\ ~Contains(parts[1], <<"\"">>) THEN parts[2] ELSE <<>>

RECURSIVE FormatLines(_, _)
\* hclPrinter.Format's layout of a text that the printer wrote: every line is
\* kept, one blank line separates two top-level items.  marker is the open
\* heredoc's, the empty text outside one.
FormatLines(lines, marker) ==
    IF lines = <<>> THEN <<>>
    ELSE IF marker # <<>>
         THEN <<Head(lines)>>
              \o FormatLines(Tail(lines), IF TrimSpace(Head(lines)) = marker THEN <<>> ELSE marker)
         ELSE <<Head(lines)>>
              \o (IF Head(lines) = <<"}">> /\ Len(lines) > 1 /\ lines[2] # <<>>
                  THEN << <<>> >> ELSE <<>>)
              \o FormatLines(Tail(lines), HeredocMarker(Head(lines)))

\* hclPrinter.Format([]byte(s)): the text ends with one newline
hclPrinterFormat(s) ==
    Join(FormatLines(Split(TrimRightChars(s, {"\n"}), <<"\n">>), <<>>), <<"\n">>) \o <<"\n">>

ResultOk(bytes) == [err |-> FALSE, panic |-> FALSE, bytes |-> bytes]
ResultErr(bytes) == [err |-> TRUE, panic |-> FALSE, bytes |-> bytes]
ResultPanic == [err |-> FALSE, panic |-> TRUE, bytes |-> <<>>]

kResourceText == <<"}", "\n">> \o kResource

\* hclPrint's blank-line step on the printer's text
CollapseBlankLines(s) ==
    ReplaceAll(ReplaceAll(s, <<"\n", "\n">>, <<"\n">>),
               kResourceText, <<"}", "\n", "\n">> \o kResource)

\* hclPrint from the rewrites' result on: return formatted, nil
hclPrintAdjusted(adjusted13) ==
    IF adjusted13.panic THEN ResultPanic ELSE ResultOk(adjusted13.text)

\* hclPrint from hclPrinter.Fprint on: the blank-line step, Format (its error
\* returns nil bytes), the 0.12 and the 0.13 rewrites
hclPrintSanitized(nodes, mapsObjects) ==
    IF InvalidHcl(nodes) THEN ResultErr(<<>>)
    ELSE hclPrintAdjusted(
            terraform13Adjustments(
                terraform12Adjustments(
                    hclPrinterFormat(CollapseBlankLines(FprintFile(nodes))), mapsObjects)))

\* hclPrint from the parser's result on: a parse error returns []byte{}; else
\* sanitizer.visit(nodes)
hclPrintParsed(parsed, mapsObjects, sort, hintsByResource) ==
    IF parsed.err THEN ResultErr(<<>>)
    ELSE IF NodePanics(ObjectType(parsed.nodes)) THEN ResultPanic
    ELSE hclPrintSanitized(
            visitObjectList(parsed.nodes, [sort |-> sort, hints |-> hintsByResource], <<>>),
            mapsObjects)

\* hclPrint from jsonPrint's result on: its error is returned with its bytes
hclPrintJson(dataJSON, mapsObjects, sort, hintsByResource) ==
    IF dataJSON.err THEN ResultErr(dataJSON.bytes)
    ELSE hclPrintParsed(hclParserParse(dataJSON.tree), mapsObjects, sort, hintsByResource)

\* hclPrint
hclPrint(data, mapsObjects, sort, hintsByResource, iter) ==
    hclPrintJson(jsonPrint(data, iter), mapsObjects, sort, hintsByResource)

kHcl == <<"h", "c", "l">>
kJson == <<"j", "s", "o", "n">>

\* what Print passes on from jsonPrint
JsonResult(r) == IF r.err THEN ResultErr(r.bytes) ELSE ResultOk(r.bytes)

\* Print returning the JSON bytes next to the unknown-format error
PrintDataWithBytes(data, mapsObjects, format, sort, hintsByResource, iter) ==
    CASE format = kHcl -> hclPrint(data, mapsObjects, sort, hintsByResource, iter)
      [] format = kJson -> JsonResult(jsonPrint(data, iter))
      [] OTHER -> ResultErr(jsonPrint(data, iter).bytes)

\* func Print (the name is taken by the TLC module)
PrintData(data, mapsObjects, format, sort, hintsByResource, iter) ==
    CASE format = kHcl -> hclPrint(data, mapsObjects, sort, hintsByResource, iter)
      [] format = kJson -> JsonResult(jsonPrint(data, iter))
      [] OTHER -> ResultErr(<<>>)

\* ------------------------------------------------------- HclPrintResource
\* A Resource of the model is [type, name, item, attrs, hints]: InstanceInfo.Type,
\* ResourceName, Item, the keys of InstanceState.Attributes, PreserveOrder.

RECURSIVE StripIndexes(_)
\* StripIndexes cutting one digit after the "." only
StripIndexesOneDigit(t) ==
    IF t = <<>> THEN <<>>
    ELSE IF Head(t) = "." /\ SkipChars(t, 2, DigitChars) > 2
         THEN StripIndexes(SubSeq(t, 3, Len(t)))
         ELSE <<Head(t)>> \o StripIndexes(Tail(t))

\* indexRe.ReplaceAllString(key, ""): every "." followed by digits is cut
StripIndexes(t) ==
    IF t = <<>> THEN <<>>
    ELSE IF Head(t) = "." /\ SkipChars(t, 2, DigitChars) > 2
         THEN StripIndexes(SubSeq(t, SkipChars(t, 2, DigitChars), Len(t)))
         ELSE <<Head(t)>> \o StripIndexes(Tail(t))

MapCountSuffix == <<".", "%">>

\* RecordMaps with a loop that ends after its first key: what it records then
\* depends on the order in which the map hands out its keys
RecordMapsFirstKey(keys, mapsObjects) ==
    IF keys # <<>> /\ HasSuffix(Head(keys), MapCountSuffix)
    THEN mapsObjects \cup {StripIndexes(TrimSuffix(Head(keys), MapCountSuffix))}
    ELSE mapsObjects

RECURSIVE RecordMaps(_, _)
\* for k := range res.InstanceState.Attributes, keys being the attribute keys
\* in the order of this run: the paths added to mapsObjects
RecordMaps(keys, mapsObjects) ==
    IF keys = <<>> THEN mapsObjects
    ELSE RecordMaps(Tail(keys),
            IF HasSuffix(Head(keys), MapCountSuffix)
            THEN mapsObjects \cup {StripIndexes(TrimSuffix(Head(keys), MapCountSuffix))}
            ELSE mapsObjects)

\* AddResource with mapsObjects assigned, not added to: only the paths of the
\* last resource are left
AddResourceLastMaps(acc, res, iter) ==
    LET r == IF res.type \in DOMAIN acc.byType THEN acc.byType[res.type] ELSE EmptyMap
    IN  IF res.name \in DOMAIN r
        THEN [acc EXCEPT !.log = Append(@, <<res.type, res.name>>)]
        ELSE [byType |-> (res.type :> ((res.name :> res.item) @@ r)) @@ acc.byType,
              mapsObjects |-> RecordMaps(IterKeys(res.attrs, iter), {}),
              hints |-> IF Len(res.hints) > 0
                        THEN (<<res.type, res.name>> :> res.hints) @@ acc.hints
                        ELSE acc.hints,
              log |-> acc.log]

\* AddResource without the duplicate test's continue: the warning is logged and
\* the later resource replaces the earlier one
AddResourceOverwrite(acc, res, iter) ==
    LET r == IF res.type \in DOMAIN acc.byType THEN acc.byType[res.type] ELSE EmptyMap
    IN  [byType |-> (res.type :> ((res.name :> res.item) @@ r)) @@ acc.byType,
         mapsObjects |-> RecordMaps(IterKeys(res.attrs, iter), acc.mapsObjects),
         hints |-> IF Len(res.hints) > 0
                   THEN (<<res.type, res.name>> :> res.hints) @@ acc.hints
                   ELSE acc.hints,
         log |-> IF res.name \in DOMAIN r
                 THEN Append(acc.log, <<res.type, res.name>>) ELSE acc.log]

\* AddResource with the paths of a resource recorded only while mapsObjects is
\* empty: the set is no longer the one of all resources of the call
AddResourceFirstMaps(acc, res, iter) ==
    LET r == IF res.type \in DOMAIN acc.byType THEN acc.byType[res.type] ELSE EmptyMap
    IN  IF res.name \in DOMAIN r
        THEN [acc EXCEPT !.log = Append(@, <<res.type, res.name>>)]
        ELSE [byType |-> (res.type :> ((res.name :> res.item) @@ r)) @@ acc.byType,
              mapsObjects |-> IF acc.mapsObjects = {}
                              THEN RecordMaps(IterKeys(res.attrs, iter), {})
                              ELSE acc.mapsObjects,
              hints |-> IF Len(res.hints) > 0
                        THEN (<<res.type, res.name>> :> res.hints) @@ acc.hints
                        ELSE acc.hints,
              log |-> acc.log]

\* one turn of HclPrintResource's loop: acc is [byType, mapsObjects, hints, log],
\* byType a function from a type to the function from a name to its Item
AddResource(acc, res, iter) ==
    LET r == IF res.type \in DOMAIN acc.byType THEN acc.byType[res.type] ELSE EmptyMap
    IN  IF res.name \in DOMAIN r
        THEN [acc EXCEPT !.log = Append(@, <<res.type, res.name>>)]
        ELSE [byType |-> (res.type :> ((res.name :> res.item) @@ r)) @@ acc.byType,
              mapsObjects |-> RecordMaps(IterKeys(res.attrs, iter), acc.mapsObjects),
              hints |-> IF Len(res.hints) > 0
                        THEN (<<res.type, res.name>> :> res.hints) @@ acc.hints
                        ELSE acc.hints,
              log |-> acc.log]

RECURSIVE Assemble(_, _, _)
Assemble(acc, resources, iter) ==
    IF resources = <<>> THEN acc
    ELSE Assemble(AddResource(acc, Head(resources), iter), Tail(resources), iter)

EmptyAssembly == [byType |-> EmptyMap, mapsObjects |-> {}, hints |-> EmptyMap, log |-> <<>>]

\* the document handed to Print
DocumentData(byType, providerData) ==
    MapV(MkMap(<<
        <<kResource,
          IF DOMAIN byType # {}
          THEN MapV([type \in DOMAIN byType |-> MapV(byType[type])])
          ELSE Absent>>,
        <<kProvider,
          IF DOMAIN providerData.m # {} THEN providerData ELSE Absent>> >>))

\* HclPrintResource's return for what Print returned: on an error []byte{}
Returned(printed, acc) ==
    [err |-> printed.err,
     panic |-> printed.panic,
     bytes |-> IF printed.err THEN <<>> ELSE printed.bytes,
     built |-> acc]

\* HclPrintResource after its loop, acc being what the loop built
PrintAssembled(acc, providerData, output, sort, iter) ==
    Returned(PrintData(DocumentData(acc.byType, providerData), acc.mapsObjects, output, sort,
                       acc.hints, iter),
             acc)

\* HclPrintResource: [err, panic, bytes] and, for the model's reader, what the
\* loop built ([byType, mapsObjects, hints, log])
HclPrintResource(resources, providerData, output, sort, iter) ==
    PrintAssembled(Assemble(EmptyAssembly, resources, iter), providerData, output, sort, iter)

\* ------------------------------------------------------------ conversion
\* ConvertTFstate on a resource whose schema block has attributes only, of
\* type string or number.

\* regexp.MustCompile(pattern).MatchString(key) for a pattern without
\* metacharacters: the key contains the pattern
MatchString(pattern, key) == Contains(key, pattern)

MatchesAny(patterns, key) == \E i \in DOMAIN patterns : MatchString(patterns[i], key)

\* the loop over r.AllowEmptyValues: the empty pattern is not compiled
CompiledAllowEmptyValues(patterns) == SelectSeq(patterns, LAMBDA pattern : pattern # <<>>)

RECURSIVE DecimalValue(_)
DecimalValue(text) ==
    IF text = <<>> THEN 0
    ELSE 10 * DecimalValue(SubSeq(text, 1, Len(text) - 1))
            + (CHOOSE d \in 0..9 : Digits[d + 1] = text[Len(text)])

\* resourceSchema.Block.ImpliedType(): the type of every attribute
ImpliedType(blockSchema) == [name \in DOMAIN blockSchema.attrs |-> blockSchema.attrs[name].type]

\* the attributes of the bag that the decoder reads: those the type declares,
\* without the ignored keys
DecodedKeys(attributes, ignoreKeys, impliedType) ==
    {key \in DOMAIN attributes \cap DOMAIN impliedType : ~MatchesAny(ignoreKeys, key)}

\* a map[string]string: nil, or the function of its entries
NilBag == [isnil |-> TRUE, m |-> <<>>]
Bag(m) == [isnil |-> FALSE, m |-> m]

\* NewFlatmapParser(attributes, ignoreKeys, allowEmptyValues).Parse(impliedType):
\* a nil bag decodes to a nil map; a number that cannot be read is an error;
\* an attribute that is absent from the bag produces no node, an explicit
\* empty string produces the empty string
FlatmapParse(attributes, ignoreKeys, allowEmptyValues, impliedType) ==
    IF attributes.isnil THEN [err |-> FALSE, attributes |-> NilMapV]
    ELSE IF \E key \in DecodedKeys(attributes.m, ignoreKeys, impliedType) :
                impliedType[key] = "number" /\ ~IsInteger(attributes.m[key])
    THEN [err |-> TRUE, attributes |-> NilMapV]
    ELSE [err |-> FALSE,
          attributes |->
            MapV([key \in DecodedKeys(attributes.m, ignoreKeys, impliedType) |->
                    IF impliedType[key] = "number"
                    THEN NumV(DecimalValue(attributes.m[key]))
                    ELSE StrV(attributes.m[key])])]

ConvertResult(err, panic, item) == [err |-> err, panic |-> panic, item |-> item]

\* Resource.ParseTFstate, parsed being what parser.Parse returned and item the
\* r.Item of before: a write into a nil map is a run-time panic
ParseTFstate(item, parsed, additionalFields) ==
    IF parsed.err THEN ConvertResult(TRUE, FALSE, item)
    ELSE IF parsed.attributes.isnil /\ DOMAIN additionalFields # {}
    THEN ConvertResult(FALSE, TRUE, item)
    ELSE ConvertResult(FALSE, FALSE,
            MapV([key \in DOMAIN parsed.attributes.m \cup DOMAIN additionalFields |->
                    IF key \in DOMAIN additionalFields
                    THEN additionalFields[key]
                    ELSE parsed.attributes.m[key]]))

\* ConvertTFstate after ParseTFstate: the error is returned, or the cleanup runs
ConvertParsed(parsed, resourceSchema) ==
    IF parsed.err \/ parsed.panic THEN parsed
    ELSE ConvertResult(FALSE, FALSE,
            CleanUpOptionalEmptyAttributes(parsed.item, resourceSchema))

\* Resource.ConvertTFstate, r being the fields of the resource it reads
ConvertTFstate(item, r, resourceSchema) ==
    ConvertParsed(
        ParseTFstate(item,
            FlatmapParse(r.attributes, r.ignoreKeys,
                         CompiledAllowEmptyValues(r.allowEmptyValues),
                         ImpliedType(resourceSchema)),
            r.additionalFields),
        resourceSchema)

\* ------------------------------------------------------------ output files
\* OutputHclFiles.  A directory is a set of entries [name, isDir]; a file path
\* is [dir, name], dir being "out" for the output directory and "data" for its
\* data subdirectory.  os.WriteFile and os.Remove succeed.

kTfSuffix == <<".", "t", "f">>
kTfJsonSuffix == <<".", "t", "f", ".", "j", "s", "o", "n">>

\* the names that getExistingTfFiles skips
SpecialFiles ==
    { <<"p", "r", "o", "v", "i", "d", "e", "r", ".", "t", "f">>, <<"v", "e", "r", "s", "i", "o", "n", "s", ".", "t", "f">>, <<"o", "u", "t", "p", "u", "t", "s", ".", "t", "f">>,
      <<"p", "r", "o", "v", "i", "d", "e", "r", ".", "t", "f", ".", "j", "s", "o", "n">>,
      <<"o", "u", "t", "p", "u", "t", "s", ".", "t", "f", ".", "j", "s", "o", "n">> }

FilePath(dir, name) == [dir |-> dir, name |-> name]
FileEntry(name) == [name |-> name, isDir |-> FALSE]
DirEntry(name) == [name |-> name, isDir |-> TRUE]

\* getExistingTfFiles without the switch on the special names
getExistingTfFilesAll(entries) ==
    { FilePath("out", e.name) :
        e \in { x \in entries :
                    /\ ~x.isDir
                    /\ (HasSuffix(x.name, kTfSuffix) \/ HasSuffix(x.name, kTfJsonSuffix)) } }

\* getExistingTfFiles(path) on the entries of the directory
getExistingTfFiles(entries) ==
    { FilePath("out", e.name) :
        e \in { x \in entries :
                    /\ ~x.isDir
                    /\ (HasSuffix(x.name, kTfSuffix) \/ HasSuffix(x.name, kTfJsonSuffix))
                    /\ x.name \notin SpecialFiles } }

\* getAllFilesFromDir(filepath.Join(path, "data"))
getAllFilesFromDir(entries) == { FilePath("data", e.name) : e \in {x \in entries : ~x.isDir} }

GetFileExtension(outputFormat) ==
    IF outputFormat = kJson THEN <<"t", "f", ".", "j", "s", "o", "n">> ELSE <<"t", "f">>

kVersion == <<"v", "e", "r", "s", "i", "o", "n">>
kOutputBlock == <<"o", "u", "t", "p", "u", "t">>
kValue == <<"v", "a", "l", "u", "e">>
kSelfLink == <<"s", "e", "l", "f", "_", "l", "i", "n", "k">>
kId == <<"i", "d">>
kResources == <<"r", "e", "s", "o", "u", "r", "c", "e", "s">>

\* Resource.GetIDKey; attrs holds the keys of InstanceState.Attributes
GetIDKey(r) == IF kSelfLink \in r.attrs THEN kSelfLink ELSE kId

\* providerData with the terraform block that OutputHclFiles adds to it
ProviderFileData(providerData, name, version) ==
    MapV(providerData.m @@
         (kTerraform :> MapV(kRequiredProviders :>
            ListV(<<MapV(name :> MapV(kVersion :> StrV(version)))>>))))

\* outputsByResource for a provider without resource connections
OutputsByResource(resources) ==
    LET keyOf(r) == r.type \o <<"_">> \o r.name \o <<"_">> \o GetIDKey(r)
        valueOf(r) == <<"$", "{">> \o r.type \o <<".">> \o r.name \o <<".">> \o GetIDKey(r) \o <<"}">>
        keys == {keyOf(resources[i]) : i \in DOMAIN resources}
    IN  [key \in keys |->
            LET i == CHOOSE j \in DOMAIN resources :
                        /\ keyOf(resources[j]) = key
                        /\ \A g \in DOMAIN resources : keyOf(resources[g]) = key => g <= j
            IN  MapV(kValue :> StrV(valueOf(resources[i])))]

\* the name of the file of a resource type: the type without its first word
TypeFileName(k) == ReplaceAll(k, Split(k, <<"_">>)[1] \o <<"_">>, <<>>)

\* the calls of printFile that OutputHclFiles makes: [fileName, v]
PrintJobs(resources, isCompact) ==
    IF isCompact THEN { [fileName |-> kResources, v |-> resources] }
    ELSE { [fileName |-> TypeFileName(k),
            v |-> SelectSeq(resources, LAMBDA r : r.res.type = k)] :
            k \in {resources[i].res.type : i \in DOMAIN resources} }

\* the data files that printFile writes for v: nil DataFiles are skipped
DataFilesOf(v) ==
    UNION { v[i].dataFiles.names : i \in {j \in DOMAIN v : ~v[j].dataFiles.isnil} }

\* printFile's call of HclPrintResource
PrintFileText(v, output, sort) ==
    HclPrintResource([i \in DOMAIN v |-> v[i].res], MapV(EmptyMap), output, sort, "asc")

\* the directory after os.WriteFile of the names
WriteFiles(entries, names) == entries \cup {FileEntry(name) : name \in names}

\* the directory after os.Remove of the paths of dir
RemoveFiles(entries, dir, paths) ==
    { e \in entries : e.isDir \/ FilePath(dir, e.name) \notin paths }

\* ========================================================= specifications

\* ------------------------------------------------------------- the pruner
PruneInit ==
    /\ rItem \in ItemSamples
    /\ itemIn = rItem
    /\ rFields = Absent
    /\ convOut = Absent
    /\ rSchema \in SchemaSamples
    /\ cleanIn = Absent
    /\ prunePc = "start"
    /\ RenderIdle /\ VisitIdle /\ TfIdle /\ HdIdle /\ OutIdle

\* r.CleanUpOptionalEmptyAttributes(resourceSchema.Block), resource.go:187
CleanUp ==
    /\ prunePc = "start"
    /\ rItem' = CleanUpOptionalEmptyAttributes(rItem, rSchema)
    /\ cleanIn' = CleanInput(rItem, rSchema)
    /\ prunePc' = "pruned"
    /\ UNCHANGED <<itemIn, rFields, convOut, rSchema, renderVars, visitVars, tfVars, hdVars, outVars>>

PruneNext == CleanUp

SpecPrune == PruneInit /\ [][PruneNext]_vars

\* --------------------------------------------------------- the conversion
TypedFlags(optional, computed, type) ==
    [optional |-> optional, computed |-> computed, type |-> type]

\* a (optional or not) and q are strings, d is an optional number
ConvertSchemas ==
    {[attrs |-> (kA :> TypedFlags(optional, FALSE, "string"))
                @@ (kQ :> TypedFlags(FALSE, FALSE, "string"))
                @@ (kD :> TypedFlags(TRUE, FALSE, "number")),
      blocks |-> EmptyMap] : optional \in BOOLEAN}

AttributeSamples ==
    {NilBag} \cup {Bag(m) : m \in UNION {[K -> {<<>>, tX, <<"0">>}] : K \in SUBSET {kA, kQ, kD, kU}}}

PatternSamples == {<<>>, <<kA>>, <<tEmpty>>, <<tEmpty, kQ>>}

AdditionalSamples == {EmptyMap, kU :> StrV(tX), kA :> StrV(tX)}

ResourceFields(attributes, ignoreKeys, allowEmptyValues, additionalFields) ==
    [attributes |-> attributes, ignoreKeys |-> ignoreKeys,
     allowEmptyValues |-> allowEmptyValues, additionalFields |-> additionalFields]

\* NewResource leaves Item nil
ConvertInit ==
    /\ rItem = NilMapV
    /\ itemIn = NilMapV
    /\ rFields \in {ResourceFields(attributes, ignoreKeys, allowEmptyValues, additionalFields) :
                        attributes \in AttributeSamples,
                        ignoreKeys \in {<<>>, <<kQ>>},
                        allowEmptyValues \in PatternSamples,
                        additionalFields \in AdditionalSamples}
    /\ convOut = Absent
    /\ rSchema \in ConvertSchemas
    /\ cleanIn = Absent
    /\ prunePc = "convert"
    /\ RenderIdle /\ VisitIdle /\ TfIdle /\ HdIdle /\ OutIdle

\* r.ConvertTFstate(provider)
Convert ==
    /\ prunePc = "convert"
    /\ convOut' = ConvertTFstate(rItem, rFields, rSchema)
    /\ rItem' = convOut'.item
    /\ prunePc' = "converted"
    /\ UNCHANGED <<itemIn, rFields, rSchema, cleanIn, renderVars, visitVars, tfVars, hdVars, outVars>>

\* the flatmap parser's result for the resource's fields
ParsedState(r, resourceSchema) ==
    FlatmapParse(r.attributes, r.ignoreKeys,
                 CompiledAllowEmptyValues(r.allowEmptyValues), ImpliedType(resourceSchema))

\* r.ParseTFstate(parser, impliedType), resource.go:182
ParseState ==
    /\ prunePc = "convert"
    /\ convOut' = ParseTFstate(rItem, ParsedState(rFields, rSchema), rFields.additionalFields)
    /\ rItem' = convOut'.item
    /\ prunePc' = "parsed"
    /\ UNCHANGED <<itemIn, rFields, rSchema, cleanIn, renderVars, visitVars, tfVars, hdVars, outVars>>

ConvertNext == Convert \/ ParseState

SpecConvert == ConvertInit /\ [][ConvertNext]_vars

\* ------------------------------------------------------------ the renderer
\* HclPrintResource and Print are called on one input: twice with the maps
\* handing out their keys in different orders, and once on the resources in
\* another order.

MaxResources == 2

tT == <<"t">>
tU == <<"u">>
nN == <<"n">>
nM == <<"m">>
kG == <<"g">>
kL == <<"l">>
kP == <<"p">>
kE == <<"e">>
kBadIdent == <<"1", "a">>
PolicyHeredoc ==
    <<"<", "<", "E", "O", "F", "\n",
      "{", "\"", "a", "\"", ":", "1", "}", "\n", "E", "O", "F">>

Resource(type, name, item, attrs, hints) ==
    [type |-> type, name |-> name, item |-> item, attrs |-> attrs, hints |-> hints]

ResourceSamples ==
    { Resource(tT, nN, MapV(kA :> NumV(1)), {kA}, <<>>),
      \* the same (type, name) again, with a map-shaped attribute
      Resource(tT, nN, MapV((kA :> NumV(2)) @@ (kL :> MapV(kE :> StrV(kP)))),
               {kA, kL \o MapCountSuffix}, <<>>),
      \* l is a block here; the policy is a heredoc; the block of the set g
      \* holds the map e
      Resource(tU, nN, MapV((kP :> StrV(PolicyHeredoc))
                            @@ (kL :> ListV(<<MapV(kE :> StrV(kP))>>))
                            @@ (kG :> ListV(<<MapV(kE :> MapV(kP :> StrV(kP)))>>))),
               {kP, <<"l", ".", "#">>, <<"l", ".", "0", ".", "e">>,
                <<"g", ".", "#">>, <<"g", ".", "1", "0", ".", "e", ".", "%">>,
                <<"g", ".", "1", "0", ".", "e", ".", "p">>}, <<>>),
      \* a list attribute whose order is kept
      Resource(tT, nM, MapV(kG :> ListV(<<StrV(kU), StrV(kA)>>)), {kG}, <<kG>>),
      \* a value encoding/json refuses
      Resource(tU, nM, MapV(kA :> NaNV), {kA}, <<>>),
      \* a key that is no identifier once its quotes are dropped
      Resource(tU, nM, MapV(kBadIdent :> NumV(1)), {kBadIdent}, <<>>) }

ProviderSamples ==
    { MapV(EmptyMap),
      MapV(kTerraform :> MapV(kRequiredProviders :>
            ListV(<<MapV(kG :> MapV(kE :> StrV(kP)))>>))) }

OutputSamples == {kHcl, kJson, <<"x">>}

ResourceLists == UNION {[1..n -> ResourceSamples] : n \in 1..MaxResources}

Reorderings(list) ==
    {[i \in DOMAIN list |-> list[f[i]]] :
        f \in {g \in [DOMAIN list -> DOMAIN list] : \A i, j \in DOMAIN list : g[i] = g[j] => i = j}}

NoRuns == [hclA |-> Absent, hclB |-> Absent, hclP |-> Absent, printA |-> Absent, printB |-> Absent]

RenderInit ==
    /\ argResources \in ResourceLists
    /\ argProviderData \in ProviderSamples
    /\ argOutput \in OutputSamples
    /\ argSort \in BOOLEAN
    /\ permuted = Absent
    /\ runs = NoRuns
    /\ renderPc = "start"
    /\ PruneIdle /\ VisitIdle /\ TfIdle /\ HdIdle /\ OutIdle

\* Print on the document that acc holds
PrintBuilt(acc, iter) ==
    PrintData(DocumentData(acc.byType, argProviderData), acc.mapsObjects, argOutput, argSort,
              acc.hints, iter)

\* Print on the document of these resources
PrintCall(list, iter) == PrintBuilt(Assemble(EmptyAssembly, list, "asc"), iter)

CallHclPrintResource ==
    /\ renderPc = "start"
    /\ runs' = [runs EXCEPT !.hclA = HclPrintResource(argResources, argProviderData, argOutput, argSort, "asc")]
    /\ renderPc' = "hclA"
    /\ UNCHANGED <<argResources, argProviderData, argOutput, argSort, permuted, pruneVars, visitVars, tfVars, hdVars, outVars>>

CallHclPrintResourceAgain ==
    /\ renderPc = "hclA"
    /\ runs' = [runs EXCEPT !.hclB = HclPrintResource(argResources, argProviderData, argOutput, argSort, "desc")]
    /\ renderPc' = "hclB"
    /\ UNCHANGED <<argResources, argProviderData, argOutput, argSort, permuted, pruneVars, visitVars, tfVars, hdVars, outVars>>

CallHclPrintResourcePermuted ==
    /\ renderPc = "hclB"
    /\ \E list \in Reorderings(argResources) :
        /\ permuted' = list
        /\ runs' = [runs EXCEPT !.hclP = HclPrintResource(list, argProviderData, argOutput, argSort, "asc")]
    /\ renderPc' = "hclP"
    /\ UNCHANGED <<argResources, argProviderData, argOutput, argSort, pruneVars, visitVars, tfVars, hdVars, outVars>>

CallPrint ==
    /\ renderPc = "hclP"
    /\ runs' = [runs EXCEPT !.printA = PrintCall(argResources, "asc")]
    /\ renderPc' = "printA"
    /\ UNCHANGED <<argResources, argProviderData, argOutput, argSort, permuted, pruneVars, visitVars, tfVars, hdVars, outVars>>

CallPrintAgain ==
    /\ renderPc = "printA"
    /\ runs' = [runs EXCEPT !.printB = PrintCall(argResources, "desc")]
    /\ renderPc' = "done"
    /\ UNCHANGED <<argResources, argProviderData, argOutput, argSort, permuted, pruneVars, visitVars, tfVars, hdVars, outVars>>

Next ==
    \/ CallHclPrintResource
    \/ CallHclPrintResourceAgain
    \/ CallHclPrintResourcePermuted
    \/ CallPrint
    \/ CallPrintAgain

Spec == RenderInit /\ [][Next]_vars

\* ----------------------------------------------------------- the sanitizer
\* sanitizer.visit(nodes) on the parsed document of two resources with the
\* same body, the first of them registered with hints.

MaxHints == 2

kB == <<"b">>
kF == <<"f">>
kS == <<"s">>
kY == <<"y">>
kZ == <<"z">>

\* two orders of two blocks, two orders of a list attribute
BlockLists ==
    { ListV(<<MapV(kZ :> NumV(1)), MapV(kY :> NumV(2))>>),
      ListV(<<MapV(kY :> NumV(2)), MapV(kZ :> NumV(1))>>) }
ValueLists ==
    { ListV(<<StrV(kU), StrV(kA)>>), ListV(<<StrV(kA), StrV(kU)>>) }

\* b is one block that holds the repeated blocks s and, at will, the list g
NestedSamples ==
    { ListV(<<MapV(MkMap(<< <<kS, s>>, <<kG, g>>, <<kQ, NumV(1)>> >>))>>) :
        s \in BlockLists, g \in {Absent, ListV(<<StrV(kU), StrV(kA)>>)} }

VisitBodies ==
    { MapV(MkMap(<< <<kA, NumV(1)>>, <<kB, b>>, <<kF, f>>, <<kG, g>> >>)) :
        b \in NestedSamples \cup {Absent},
        f \in BlockLists \cup {Absent},
        g \in ValueLists \cup {Absent} }

HintSamples == { kF, kG, kB \o <<".">> \o kS, kB \o <<".">> \o kG }

HintLists == UNION {[1..n -> HintSamples] : n \in 0..MaxHints}

\* the resource t.n has the hints; t.m, u.n and the provider block, which is
\* labelled like it, have the same body and no hint
VisitResources(body, hints) ==
    << Resource(tT, nN, body, {}, hints), Resource(tT, nM, body, {}, <<>>),
       Resource(tU, nN, body, {}, <<>>) >>

VisitProvider(body) == MapV(tT :> MapV(nN :> body))

\* hclPrint up to the call of sanitizer.visit
ParsedNodes(acc, providerData) ==
    hclParserParse(jsonPrint(DocumentData(acc.byType, providerData), "asc").tree).nodes

VisitInit ==
    /\ \E body \in VisitBodies, hints \in HintLists :
        /\ vNodes = ParsedNodes(Assemble(EmptyAssembly, VisitResources(body, hints), "asc"),
                                VisitProvider(body))
        /\ vHints = Assemble(EmptyAssembly, VisitResources(body, hints), "asc").hints
    /\ vSort \in BOOLEAN
    /\ vOut = Absent
    /\ visitPc = "start"
    /\ vStack = NoCalls
    /\ PruneIdle /\ RenderIdle /\ TfIdle /\ HdIdle /\ OutIdle

\* sanitizer.visit(nodes), hcl.go:299
Visit ==
    /\ visitPc = "start"
    /\ vOut' = visitObjectList(vNodes, [sort |-> vSort, hints |-> vHints], <<>>)
    /\ vStack' = visitFilePath(vNodes, vStack.currentPath)
    /\ visitPc' = "visited"
    /\ UNCHANGED <<vNodes, vHints, vSort, pruneVars, renderVars, tfVars, hdVars, outVars>>

VisitNext == Visit

SpecVisit == VisitInit /\ [][VisitNext]_vars

\* -------------------------------------------------------- visitObjectItem
\* visitObjectItem on one item with one or two keys, as the JSON parser makes
\* them: quoted.

MaxKeyLen == 3

KeyChars == {"a", "E", "1", "-", "_", ".", " "}

KeyTexts == UNION {[1..n -> KeyChars] : n \in 0..MaxKeyLen}

ItemInit ==
    /\ \E key \in KeyTexts, more \in {<<>>, <<Quote(kA)>>, <<Quote(<<".">>)>>} :
            vNodes = <<ObjectItem(<<Quote(key)>> \o more, LiteralType(<<"1">>, FALSE))>>
    /\ vHints = EmptyMap
    /\ vSort \in BOOLEAN
    /\ vOut = Absent
    /\ visitPc = "item"
    /\ vStack = NoCalls
    /\ PruneIdle /\ RenderIdle /\ TfIdle /\ HdIdle /\ OutIdle

\* v.visitObjectItem(t)
VisitObjectItem ==
    /\ visitPc = "item"
    /\ vOut' = <<visitObjectItem(vNodes[1], [sort |-> vSort, hints |-> vHints], <<>>)>>
    /\ vStack' = visitObjectItemPath(vNodes[1], vStack.currentPath, 1)
    /\ visitPc' = "itemVisited"
    /\ UNCHANGED <<vNodes, vHints, vSort, pruneVars, renderVars, tfVars, hdVars, outVars>>

ItemNext == VisitObjectItem

SpecItem == ItemInit /\ [][ItemNext]_vars

\* -------------------------------------------------------- the 0.12 rewrite
\* terraform12Adjustments on the text that hclPrinter.Format returns for one
\* resource, with a set of map-shaped paths.

kK == <<"k">>
kT == <<"t">>

\* b is one block with the map t and, at will, a JSON heredoc before it
TfBlockSamples ==
    { ListV(<<MapV(MkMap(<< <<kP, p>>, <<kT, MapV(kE :> StrV(kP))>> >>))>>) :
        p \in {Absent, StrV(PolicyHeredoc)} }

\* k is an empty map, l a map with one entry
TfBodies ==
    { MapV(MkMap(<< <<kA, NumV(1)>>, <<kB, b>>, <<kK, k>>, <<kL, l>> >>)) :
        b \in TfBlockSamples \cup {Absent},
        k \in {Absent, MapV(EmptyMap)},
        l \in {Absent, MapV(kE :> StrV(kP))} }

TfPaths == { kB, kK, kL, kB \o <<".">> \o kT }

\* hclPrint up to the call of terraform12Adjustments
FormattedText(body) ==
    hclPrinterFormat(CollapseBlankLines(FprintFile(
        visitObjectList(
            ParsedNodes(Assemble(EmptyAssembly, <<Resource(tT, nN, body, {}, <<>>)>>, "asc"),
                        MapV(EmptyMap)),
            [sort |-> TRUE, hints |-> EmptyMap], <<>>))))

TfInit ==
    /\ tfIn \in {FormattedText(body) : body \in TfBodies}
    /\ tfMaps \in SUBSET TfPaths
    /\ tfOut = Absent
    /\ tfPc = "start"
    /\ PruneIdle /\ RenderIdle /\ VisitIdle /\ HdIdle /\ OutIdle

\* formatted = terraform12Adjustments(formatted, mapsObjects), hcl.go:320
Adjust12 ==
    /\ tfPc = "start"
    /\ tfOut' = terraform12Adjustments(tfIn, tfMaps)
    /\ tfPc' = "adjusted"
    /\ UNCHANGED <<tfIn, tfMaps, pruneVars, renderVars, visitVars, hdVars, outVars>>

TfNext == Adjust12

SpecTf12 == TfInit /\ [][TfNext]_vars

\* ------------------------------------------------------------ the heredoc
\* handleHeredoc on the literal that the JSON parser makes of a string value:
\* the value's JSON text, the quotes and the escapes still in it.

MaxBodyLines == 2

EscapedNewline == <<"\\", "n">>
EscapedTab == <<"\\", "t">>
EscapedQuote == <<"\\", "\"">>

\* lines of a heredoc body as they stand in the literal
BodyLineSamples ==
    { <<"{">> \o EscapedQuote \o <<"a">> \o EscapedQuote \o <<":", "1", "}">>,
      <<"[", "1", ",">>,
      <<"2", "]">>,
      <<"a", "b">>,
      <<"a">> \o EscapedTab \o <<"b">>,
      <<"1">> }

BodySamples == UNION {[1..n -> BodyLineSamples] : n \in 0..MaxBodyLines}

MarkerSamples == { <<"E", "O", "F">>, <<"E">> }

\* "<<EOF\n ... \nEOF"
HeredocLiteral(marker, body) ==
    Quote(Join(<< <<"<", "<">> \o marker >> \o body \o <<marker>>, EscapedNewline))

LiteralSamples ==
    { LiteralType(HeredocLiteral(marker, body), FALSE) :
        marker \in MarkerSamples, body \in BodySamples }
    \* one line only: the marker, or the bare "<<"
    \cup { LiteralType(Quote(<<"<", "<">> \o marker), FALSE) :
                marker \in MarkerSamples \cup {<<>>} }
    \cup { LiteralType(Quote(<<"a", "b">>), FALSE), LiteralType(<<"1">>, FALSE) }

HdInit ==
    /\ hdIn \in LiteralSamples
    /\ hdOut = Absent
    /\ hdPc = "start"
    /\ PruneIdle /\ RenderIdle /\ VisitIdle /\ TfIdle /\ OutIdle

\* v.handleHeredoc(t), hcl.go:155
HandleHeredoc ==
    /\ hdPc = "start"
    /\ hdOut' = handleHeredoc(hdIn)
    /\ hdPc' = "handled"
    /\ UNCHANGED <<hdIn, pruneVars, renderVars, visitVars, tfVars, outVars>>

HdNext == HandleHeredoc

SpecHeredoc == HdInit /\ [][HdNext]_vars

\* ----------------------------------------------------- the blank-line step
\* hclPrint's blank-line step on the text that hclPrinter.Fprint writes for a
\* document of one to three resources; a heredoc of the first body holds empty
\* lines.

MaxBlankLines == 4

\* "<<EOF\na\n", n empty lines, "b\nEOF"
BlankHeredoc(n) ==
    <<"<", "<", "E", "O", "F", "\n", "a", "\n">>
    \o [i \in 1..n |-> "\n"]
    \o <<"b", "\n", "E", "O", "F">>

BlankBodies ==
    { MapV(MkMap(<< <<kA, a>>, <<kP, p>>, <<kB, b>> >>)) :
        a \in {Absent, NumV(1)},
        p \in {Absent} \cup {StrV(BlankHeredoc(n)) : n \in 0..MaxBlankLines},
        b \in {Absent, ListV(<<MapV(kE :> StrV(kP))>>)} }

BlankResources(body) ==
    { <<Resource(tT, nN, body, {}, <<>>)>> \o more :
        more \in { <<>>,
                   <<Resource(tT, nM, MapV(EmptyMap), {}, <<>>)>>,
                   <<Resource(tU, nN, body, {}, <<>>)>>,
                   <<Resource(tT, nM, MapV(EmptyMap), {}, <<>>),
                     Resource(tU, nN, body, {}, <<>>)>> } }

\* hclPrint up to the blank-line step: s of hcl.go:307
PrintedText(resources) ==
    FprintFile(
        visitObjectList(
            ParsedNodes(Assemble(EmptyAssembly, resources, "asc"), MapV(EmptyMap)),
            [sort |-> TRUE, hints |-> EmptyMap], <<>>))

BlankInit ==
    /\ \E body \in BlankBodies : \E resources \in BlankResources(body) :
        tfIn = PrintedText(resources)
    /\ tfMaps = {}
    /\ tfOut = Absent
    /\ tfPc = "printed"
    /\ PruneIdle /\ RenderIdle /\ VisitIdle /\ HdIdle /\ OutIdle

\* the two strings.ReplaceAll of hcl.go:309-312
Collapse ==
    /\ tfPc = "printed"
    /\ tfOut' = CollapseBlankLines(tfIn)
    /\ tfPc' = "collapsed"
    /\ UNCHANGED <<tfIn, tfMaps, pruneVars, renderVars, visitVars, hdVars, outVars>>

BlankNext == Collapse

SpecBlank == BlankInit /\ [][BlankNext]_vars

\* -------------------------------------------------------- the 0.13 rewrite
\* terraform13Adjustments, and hclPrint's return after it, on the text that the
\* 0.12 rewrite returns for a document with a required_providers block: inside
\* a terraform block, as the provider file has it, or at the top of the file.

\* the configuration of one provider: a and v are texts, k a map, l one block
ProviderConfigs ==
    { MapV(MkMap(<< <<kA, a>>, <<kK, k>>, <<kL, l>>, <<kP, v>> >>)) :
        a \in {Absent, StrV(kE)},
        k \in {Absent, MapV(EmptyMap), MapV(kE :> NumV(1))},
        l \in {Absent, ListV(<<MapV(kE :> StrV(kP))>>)},
        v \in {Absent, StrV(kE)} }

RequiredProviders(name, config) ==
    MapV(kRequiredProviders :> ListV(<<MapV(name :> config)>>))

\* a terraform block without required_providers
PlainTerraform == MapV(kTerraform :> MapV(kK :> MapV(kE :> NumV(1))))

ProviderDocuments ==
    { doc : doc \in UNION {
        { RequiredProviders(name, config),
          MapV(kTerraform :> RequiredProviders(name, config)) } :
        name \in {tT, tU}, config \in ProviderConfigs } }
    \cup {PlainTerraform}

\* hclPrint up to the call of terraform13Adjustments, no path map-shaped
FormattedDocument(data) ==
    terraform12Adjustments(
        hclPrinterFormat(CollapseBlankLines(FprintFile(
            visitObjectList(hclParserParse(jsonPrint(data, "asc").tree).nodes,
                            [sort |-> TRUE, hints |-> EmptyMap], <<>>)))),
        {})

Tf13Init ==
    /\ tfIn \in {FormattedDocument(data) : data \in ProviderDocuments}
    /\ tfMaps = {}
    /\ tfOut = Absent
    /\ tfPc = "formatted"
    /\ PruneIdle /\ RenderIdle /\ VisitIdle /\ HdIdle /\ OutIdle

\* formatted = terraform13Adjustments(formatted) and the return, hcl.go:322-331
Adjust13 ==
    /\ tfPc = "formatted"
    /\ tfOut' = hclPrintAdjusted(terraform13Adjustments(tfIn))
    /\ tfPc' = "returned"
    /\ UNCHANGED <<tfIn, tfMaps, pruneVars, renderVars, visitVars, hdVars, outVars>>

Tf13Next == Adjust13

SpecTf13 == Tf13Init /\ [][Tf13Next]_vars

\* ------------------------------------------------------ the unknown node
\* hclPrint's call of sanitizer.visit on a tree in which a value can be a node
\* of none of the types of visit's switch.  The JSON parser makes no such node:
\* the tree is built by hand, its other nodes as the parser makes them.

UnknownNode == [k |-> "other"]

UnknownValues ==
    { LiteralType(<<"1">>, FALSE),
      UnknownNode,
      ListType(<<LiteralType(<<"2">>, FALSE), LiteralType(<<"1">>, FALSE)>>),
      ListType(<<LiteralType(<<"1">>, FALSE), UnknownNode>>),
      ObjectType(<<ObjectItem(<<Quote(kE)>>, LiteralType(<<"1">>, FALSE))>>),
      ObjectType(<<ObjectItem(<<Quote(kE)>>, UnknownNode)>>) }

UnknownItems == { ObjectItem(<<Quote(key)>>, val) : key \in {kA, kB}, val \in UnknownValues }

UnknownInit ==
    /\ vNodes \in UNION {[1..n -> UnknownItems] : n \in 1..2}
    /\ vHints = EmptyMap
    /\ vSort \in BOOLEAN
    /\ vOut = Absent
    /\ visitPc = "visit"
    /\ vStack = NoCalls
    /\ PruneIdle /\ RenderIdle /\ TfIdle /\ HdIdle /\ OutIdle

\* sanitizer.visit(nodes), hcl.go:299: visit returns nothing, hclPrint goes on
\* to hclPrinter.Fprint
SanitizerVisit ==
    /\ visitPc = "visit"
    /\ vOut' = visitObjectList(vNodes, [sort |-> vSort, hints |-> vHints], <<>>)
    /\ vStack' = visitFilePath(vNodes, vStack.currentPath)
    /\ visitPc' = "fprint"
    /\ UNCHANGED <<vNodes, vHints, vSort, pruneVars, renderVars, tfVars, hdVars, outVars>>

UnknownNext == SanitizerVisit

SpecUnknown == UnknownInit /\ [][UnknownNext]_vars

\* ------------------------------------------------- the order of the visit
\* sanitizer.visit(nodes) on the parsed document of one resource whose lists
\* hold children that the visit changes: a key that keeps its quotes next to
\* one that loses them, lists in a list, a heredoc in a list.

kBC == <<"b", " ", "c">>

OrderLists ==
    { ListV(<<ListV(<<NumV(2), NumV(1)>>), ListV(<<NumV(1), NumV(3)>>)>>),
      ListV(<<StrV(PolicyHeredoc), StrV(kZ)>>),
      ListV(<<StrV(kU), StrV(kA)>>) }

OrderBlocks ==
    { ListV(<<MapV(MkMap(<< <<kA, NumV(1)>>, <<kBC, NumV(2)>>, <<kG, g>> >>))>>) :
        g \in {Absent, ListV(<<ListV(<<NumV(2), NumV(1)>>), ListV(<<NumV(1), NumV(3)>>)>>)} }

OrderBodies ==
    { MapV(MkMap(<< <<kA, NumV(1)>>, <<kBC, x>>, <<kG, g>>, <<kB, b>> >>)) :
        x \in {Absent, NumV(2)},
        g \in OrderLists \cup {Absent},
        b \in OrderBlocks \cup {Absent} }

OrderHints == { <<>>, <<kG>>, <<kB \o <<".">> \o kG>> }

OrderInit ==
    /\ \E body \in OrderBodies, hints \in OrderHints :
        /\ vNodes = ParsedNodes(
                        Assemble(EmptyAssembly, <<Resource(tT, nN, body, {}, hints)>>, "asc"),
                        MapV(EmptyMap))
        /\ vHints = Assemble(EmptyAssembly, <<Resource(tT, nN, body, {}, hints)>>, "asc").hints
    /\ vSort \in BOOLEAN
    /\ vOut = Absent
    /\ visitPc = "start"
    /\ vStack = NoCalls
    /\ PruneIdle /\ RenderIdle /\ TfIdle /\ HdIdle /\ OutIdle

SpecOrder == OrderInit /\ [][VisitNext]_vars

\* ----------------------------------------------------------- output files
\* One call of OutputHclFiles on a directory that holds files of an earlier
\* run.  The resources of one type go to one file; a resource can bring data
\* files; the third sample cannot be rendered.

OutEntries ==
    { FileEntry(<<"a", ".", "t", "f">>), FileEntry(<<"c", ".", "t", "f", ".", "j", "s", "o", "n">>),
      FileEntry(<<"p", "r", "o", "v", "i", "d", "e", "r", ".", "t", "f">>),
      FileEntry(<<"x", ".", "t", "x", "t">>), DirEntry(<<"m", ".", "t", "f">>) }

DataEntries == { FileEntry(kD), FileEntry(kE) }

OutResource(res, dataFiles) == [res |-> res, dataFiles |-> dataFiles]

\* Resource.DataFiles: a map from file name to content, or nil
DataFiles(names) == [isnil |-> FALSE, names |-> names]
NilDataFiles == [isnil |-> TRUE, names |-> {}]

tTA == <<"t", "_", "a">>
tTB == <<"t", "_", "b">>

OutResourceSamples ==
    { OutResource(Resource(tTA, nN, MapV(kA :> NumV(1)), {kA}, <<>>), DataFiles({kD})),
      OutResource(Resource(tTB, nN, MapV(kA :> NumV(1)), {kA, kSelfLink}, <<>>), NilDataFiles),
      OutResource(Resource(tTA, nM, MapV(kA :> NaNV), {kA}, <<>>), DataFiles({kE})) }

OutResourceLists == UNION {[1..n -> OutResourceSamples] : n \in 0..MaxResources}

OutInit ==
    /\ \E outDir \in SUBSET OutEntries, dataDir \in SUBSET DataEntries,
          resources \in OutResourceLists, isCompact \in BOOLEAN, output \in OutputSamples :
        outFiles = [pc |-> "start",
                    outDir |-> outDir, dataDir |-> dataDir,
                    outBefore |-> outDir, dataBefore |-> dataDir,
                    resources |-> resources, isCompact |-> isCompact, output |-> output,
                    existingTfFiles |-> {}, existingDataFiles |-> {},
                    generatedTfFiles |-> {}, generatedDataFiles |-> {},
                    pending |-> {}, written |-> {}, removed |-> {}, err |-> FALSE]
    /\ PruneIdle /\ RenderIdle /\ VisitIdle /\ TfIdle /\ HdIdle

OtherSpecsIdle == UNCHANGED <<pruneVars, renderVars, visitVars, tfVars, hdVars>>

\* part_001:82-94: the files of the earlier run are listed
ListExisting ==
    /\ outFiles.pc = "start"
    /\ outFiles' = [outFiles EXCEPT
            !.existingTfFiles = getExistingTfFiles(outFiles.outDir),
            !.existingDataFiles = getAllFilesFromDir(outFiles.dataDir),
            !.pc = "provider"]
    /\ OtherSpecsIdle

\* part_001:96-116: the provider file
WriteProviderFile ==
    /\ outFiles.pc = "provider"
    /\ LET printed == PrintData(ProviderFileData(MapV(EmptyMap), tT, <<"1">>), {},
                                outFiles.output, TRUE, EmptyMap, "asc")
           name == <<"p", "r", "o", "v", "i", "d", "e", "r", ".">> \o GetFileExtension(outFiles.output)
       IN  outFiles' =
            IF printed.panic THEN [outFiles EXCEPT !.pc = "panicked"]
            ELSE IF printed.err THEN [outFiles EXCEPT !.pc = "returned", !.err = TRUE]
            ELSE [outFiles EXCEPT
                    !.outDir = WriteFiles(@, {name}),
                    !.written = @ \cup {FilePath("out", name)},
                    !.pc = "outputs"]
    /\ OtherSpecsIdle

\* part_001:118-160: the outputs file, written when there is a resource
WriteOutputsFile ==
    /\ outFiles.pc = "outputs"
    /\ LET resources == [i \in DOMAIN outFiles.resources |-> outFiles.resources[i].res]
           printed == PrintData(MapV(kOutputBlock :> MapV(OutputsByResource(resources))), {},
                                outFiles.output, TRUE, EmptyMap, "asc")
           name == <<"o", "u", "t", "p", "u", "t", "s", ".">> \o GetFileExtension(outFiles.output)
           jobs == PrintJobs(outFiles.resources, outFiles.isCompact)
       IN  outFiles' =
            IF resources = <<>> THEN [outFiles EXCEPT !.pending = jobs, !.pc = "files"]
            ELSE IF printed.panic THEN [outFiles EXCEPT !.pc = "panicked"]
            ELSE IF printed.err THEN [outFiles EXCEPT !.pc = "returned", !.err = TRUE]
            ELSE [outFiles EXCEPT
                    !.outDir = WriteFiles(@, {name}),
                    !.written = @ \cup {FilePath("out", name)},
                    !.pending = jobs,
                    !.pc = "files"]
    /\ OtherSpecsIdle

\* part_001:167-184 and printFile: one call of printFile, the types in the
\* order that the map hands them out.  The data files are written before the
\* resources are rendered.
PrintFileCall ==
    /\ outFiles.pc = "files"
    /\ \E job \in outFiles.pending :
        LET data == DataFilesOf(job.v)
            printed == PrintFileText(job.v, outFiles.output, TRUE)
            name == job.fileName \o <<".">> \o GetFileExtension(outFiles.output)
            dataWritten == [outFiles EXCEPT
                                !.dataDir = WriteFiles(@, data),
                                !.written = @ \cup {FilePath("data", d) : d \in data},
                                !.generatedDataFiles = @ \cup {FilePath("data", d) : d \in data}]
        IN  outFiles' =
                IF printed.panic THEN [dataWritten EXCEPT !.pc = "panicked"]
                ELSE IF printed.err THEN [dataWritten EXCEPT !.pc = "returned", !.err = TRUE]
                ELSE [dataWritten EXCEPT
                        !.outDir = WriteFiles(@, {name}),
                        !.written = @ \cup {FilePath("out", name)},
                        !.generatedTfFiles = @ \cup {FilePath("out", name)},
                        !.pending = @ \ {job}]
    /\ OtherSpecsIdle

\* part_001:186-205: the stale files are removed, nil is returned
RemoveStale ==
    /\ outFiles.pc = "files"
    /\ outFiles.pending = {}
    /\ LET staleTf == outFiles.existingTfFiles \ outFiles.generatedTfFiles
           staleData == outFiles.existingDataFiles \ outFiles.generatedDataFiles
       IN  outFiles' = [outFiles EXCEPT
                !.outDir = RemoveFiles(@, "out", staleTf),
                !.dataDir = RemoveFiles(@, "data", staleData),
                !.removed = staleTf \cup staleData,
                !.pc = "returned"]
    /\ OtherSpecsIdle

OutNext ==
    \/ ListExisting
    \/ WriteProviderFile
    \/ WriteOutputsFile
    \/ PrintFileCall
    \/ RemoveStale

SpecOut == OutInit /\ [][OutNext]_vars

\* ================================================================ claims

\* the zero values that the pruner's contract lists: nil, the empty string,
\* false, 0, an empty sequence and an empty mapping (nil or not)
ContractZeroValue(value) ==
    CASE value.k = "nil" -> TRUE
      [] value.k = "str" -> value.s = <<>>
      [] value.k = "bool" -> value.b = FALSE
      [] value.k = "num" -> value.n = 0
      [] value.k = "list" -> value.elems = <<>>
      [] value.k = "map" -> DOMAIN value.m = {}
      [] OTHER -> FALSE

IsOptionalAttr(blockSchema, key) ==
    key \in DOMAIN blockSchema.attrs /\ blockSchema.attrs[key].optional

\* C4: once cleanOptionalEmptyAttributes has run on a map, every optional
\* attribute of the schema whose value was a zero value (nil, "", false, 0, an
\* empty sequence, an empty mapping) is gone from it, and every optional
\* attribute with another value is still there with that value.
C4_PrunesEveryZeroValue ==
    (prunePc = "pruned" /\ cleanIn # Absent) =>
        \A key \in DOMAIN cleanIn.m :
            IsOptionalAttr(rSchema, key) =>
                IF ContractZeroValue(cleanIn.m[key])
                THEN key \notin DOMAIN rItem.m
                ELSE key \in DOMAIN rItem.m /\ rItem.m[key] = cleanIn.m[key]

RECURSIVE ContractPrune(_, _)
\* the input tree minus exactly the optional zero-valued attributes, at every
\* depth: every block instance under a block-type key is pruned with the
\* block's schema, and nothing else changes
ContractPrune(data, blockSchema) ==
    LET gone == {key \in DOMAIN data :
                    IsOptionalAttr(blockSchema, key) /\ ContractZeroValue(data[key])}
    IN  [key \in DOMAIN data \ gone |->
            IF key \in DOMAIN blockSchema.blocks
            THEN CASE data[key].k = "list" ->
                        [data[key] EXCEPT !.elems =
                            [i \in DOMAIN data[key].elems |->
                                IF data[key].elems[i].k = "map"
                                THEN [data[key].elems[i] EXCEPT !.m =
                                        ContractPrune(data[key].elems[i].m,
                                                      blockSchema.blocks[key])]
                                ELSE data[key].elems[i]]]
                   [] data[key].k = "map" ->
                        [data[key] EXCEPT !.m =
                            ContractPrune(data[key].m, blockSchema.blocks[key])]
                   [] OTHER -> data[key]
            ELSE data[key]]

\* C10: the tree that cleanOptionalEmptyAttributes leaves is the tree it was
\* given minus exactly the optional zero-valued attributes, at every depth; no
\* other key is deleted or changed.
C10_PrunesExactlyOptionalZero ==
    (prunePc = "pruned" /\ cleanIn # Absent) =>
        rItem.m = ContractPrune(cleanIn.m, rSchema)

\* ---------------------------------------------------------------- render

\* what a caller of HclPrintResource or Print gets: the error, the panic, the bytes
Outcome(r) == [err |-> r.err, panic |-> r.panic, bytes |-> r.bytes]

Made(r) == r # Absent

\* C1: two calls on the same resources, provider data, format and sort flag
\* return the same bytes (and the same error), whatever order the maps hand
\* out their keys in; so do two calls of Print on the same document.
C1_Deterministic ==
    /\ (Made(runs.hclA) /\ Made(runs.hclB)) => Outcome(runs.hclA) = Outcome(runs.hclB)
    /\ (Made(runs.printA) /\ Made(runs.printB)) => Outcome(runs.printA) = Outcome(runs.printB)

\* both calls are made on two resources, one of them with a map-shaped
\* attribute among several, and HCL bytes came back
C1_Witness ==
    /\ renderPc = "done"
    /\ argOutput = kHcl
    /\ Len(argResources) = 2
    /\ \E i \in DOMAIN argResources : Cardinality(argResources[i].attrs) > 1
    /\ ~runs.hclA.err /\ runs.hclA.bytes # <<>>
    /\ ~runs.printB.err /\ runs.printB.bytes # <<>>

NoHints(list) == \A i \in DOMAIN list : list[i].hints = <<>>

DistinctNames(list) ==
    \A i, j \in DOMAIN list :
        (list[i].type = list[j].type /\ list[i].name = list[j].name) => i = j

\* C2 as stated: with sort enabled and no hint, every order of the resources
\* yields the same bytes, duplicates of a (type, name) included.
C2_AnyPermutation ==
    (Made(runs.hclP) /\ argSort /\ NoHints(argResources))
        => Outcome(runs.hclP) = Outcome(runs.hclA)

\* C2: with sort enabled, no hint and no (type, name) given twice, every order
\* of the resources yields the same bytes.
C2_PermutationDistinctNames ==
    (Made(runs.hclP) /\ argSort /\ NoHints(argResources) /\ DistinctNames(argResources))
        => Outcome(runs.hclP) = Outcome(runs.hclA)

\* two differently named resources are rendered in both orders
C2_Witness ==
    /\ Made(runs.hclP)
    /\ argSort /\ NoHints(argResources) /\ DistinctNames(argResources)
    /\ Len(argResources) = 2
    /\ permuted # argResources
    /\ argOutput = kHcl
    /\ ~runs.hclP.err /\ runs.hclP.bytes # <<>>

\* the resources that are the first of their (type, name), in list order
FirstOccurrences(list) ==
    LET isFirst(i) == \A j \in 1..(i - 1) :
                        ~(list[j].type = list[i].type /\ list[j].name = list[i].name)
        F[i \in 0..Len(list)] ==
            IF i = 0 THEN <<>>
            ELSE IF isFirst(i) THEN Append(F[i - 1], list[i]) ELSE F[i - 1]
    IN  F[Len(list)]

\* the (type, name) of every resource that is not the first of its name
LaterDuplicates(list) ==
    LET isFirst(i) == \A j \in 1..(i - 1) :
                        ~(list[j].type = list[i].type /\ list[j].name = list[i].name)
        F[i \in 0..Len(list)] ==
            IF i = 0 THEN <<>>
            ELSE IF isFirst(i) THEN F[i - 1]
                 ELSE Append(F[i - 1], <<list[i].type, list[i].name>>)
    IN  F[Len(list)]

KeepsFirst(list, r) ==
    /\ \A i \in DOMAIN list :
        /\ list[i].type \in DOMAIN r.built.byType
        /\ list[i].name \in DOMAIN r.built.byType[list[i].type]
        /\ \E j \in 1..i :
            /\ list[j].type = list[i].type /\ list[j].name = list[i].name
            /\ \A h \in 1..(j - 1) :
                    ~(list[h].type = list[i].type /\ list[h].name = list[i].name)
            /\ r.built.byType[list[i].type][list[i].name] = list[j].item
    /\ r.built.log = LaterDuplicates(list)
    /\ Outcome(r) = Outcome(HclPrintResource(FirstOccurrences(list), argProviderData,
                                             argOutput, argSort, "asc"))

\* C6: of several resources with one (type, name) the document holds the Item
\* of the first in list order, every later one is dropped with one warning,
\* and the call returns what it returns for the list without the later ones.
C6_DuplicatesKeepFirst ==
    /\ Made(runs.hclA) => KeepsFirst(argResources, runs.hclA)
    /\ Made(runs.hclP) => KeepsFirst(permuted, runs.hclP)

\* a (type, name) is given twice with different Items and the call succeeds
C6_Witness ==
    /\ Made(runs.hclA)
    /\ Len(argResources) = 2
    /\ ~DistinctNames(argResources)
    /\ argResources[1].item # argResources[2].item
    /\ Len(runs.hclA.built.log) = 1
    /\ argOutput = kHcl
    /\ ~runs.hclA.err /\ runs.hclA.bytes # <<>>

RunNames == {"hclA", "hclB", "hclP", "printA", "printB"}

\* C7: no call returns bytes together with an error; a format other than
\* "hcl" and "json" is an error.
C7_NoBytesWithError ==
    \A name \in RunNames :
        Made(runs[name]) =>
            /\ runs[name].err => runs[name].bytes = <<>>
            /\ (argOutput \notin {kHcl, kJson}) => runs[name].err

\* Print was called with an unknown format, and hclPrint failed in another run
C7_Witness ==
    /\ renderPc = "done"
    /\ argOutput \notin {kHcl, kJson}
    /\ runs.printA.err
    /\ runs.hclA.err

\* ------------------------------------------------------------- sanitizer

\* what the claims call a hint's container and key: "a.b" names the key b of
\* the containers at path a, "fields" the key fields of the resource's body
HintSegments(hint) == Split(hint, <<".">>)
HintParent(hint) == SubSeq(HintSegments(hint), 1, Len(HintSegments(hint)) - 1)
HintKey(hint) == HintSegments(hint)[Len(HintSegments(hint))]

ItemKey(item) == UnquoteOrText(item.keys[1])
ItemKeys(item) == [i \in DOMAIN item.keys |-> UnquoteOrText(item.keys[i])]

\* a node with every list in it sorted: equal for two nodes that differ in
\* the order of their lists only
Canonical(n) == visit(n, [sort |-> TRUE, hints |-> EmptyMap], <<>>)

RECURSIVE HintedGroups(_, _, _)
\* for the items of a container at path: every run of elements that the hint
\* names, in this container or below it.  The repeated blocks with the hinted
\* key make one run, the elements of a list attribute with that key another.
HintedGroups(items, path, hint) ==
    LET blocks == SelectSeq(items, LAMBDA it : ItemKey(it) = HintKey(hint) /\ it.val.k = "otype")
        lists == {i \in DOMAIN items : ItemKey(items[i]) = HintKey(hint) /\ items[i].val.k = "ltype"}
        here == IF path = HintParent(hint)
                THEN (IF blocks = <<>> THEN {}
                      ELSE {[i \in DOMAIN blocks |-> Canonical(blocks[i].val)]})
                     \cup {[j \in DOMAIN items[i].val.list |-> Canonical(items[i].val.list[j])] :
                            i \in lists}
                ELSE {}
    IN  here \cup UNION { HintedGroups(items[i].val.items, path \o ItemKeys(items[i]), hint) :
                            i \in {j \in DOMAIN items : items[j].val.k = "otype"} }

\* the body of the resource (type, name) in a file's items
ResourceBody(items, type, name) ==
    LET i == CHOOSE j \in DOMAIN items : ItemKeys(items[j]) = <<kResource, type, name>>
    IN  items[i].val.items

HintedResources == DOMAIN vHints

\* C3: for every hint of a resource the elements at its path, repeated blocks
\* or the elements of a list attribute, are in the output in their input order,
\* for single-segment hints as for the others.
C3_HintedOrderKept ==
    visitPc = "visited" =>
        \A tn \in HintedResources : \A h \in DOMAIN vHints[tn] :
            HintedGroups(ResourceBody(vOut, tn[1], tn[2]), <<>>, vHints[tn][h])
                = HintedGroups(ResourceBody(vNodes, tn[1], tn[2]), <<>>, vHints[tn][h])

IsSortedTexts(texts) == \A i \in 1..(Len(texts) - 1) : StrLeq(texts[i], texts[i + 1])

ItemsSorted(items) == IsSortedTexts([i \in DOMAIN items |-> FprintItem(items[i])])
NodesSorted(nodes) == IsSortedTexts([i \in DOMAIN nodes |-> FprintNode(nodes[i])])

\* the items with the hinted key first, the others after them and sorted
HintedFirst(items, key) ==
    /\ items = SelectSeq(items, LAMBDA it : ItemKey(it) = key)
                \o SelectSeq(items, LAMBDA it : ItemKey(it) # key)
    /\ ItemsSorted(SelectSeq(items, LAMBDA it : ItemKey(it) # key))

RECURSIVE ContainerOrdered(_, _, _)
\* C9's rule for the container at path that holds items, and all below it;
\* hints are the hints of the resource the container is in
ContainerOrdered(items, path, hints) ==
    LET matching == {h \in DOMAIN hints : HintParent(hints[h]) = path}
    IN  /\ IF matching = {} THEN ItemsSorted(items)
           ELSE \E h \in matching : HintedFirst(items, HintKey(hints[h]))
        /\ \A i \in DOMAIN items :
            CASE items[i].val.k = "otype" ->
                    ContainerOrdered(items[i].val.items, path \o ItemKeys(items[i]), hints)
              [] items[i].val.k = "ltype" ->
                    (\E h \in DOMAIN hints :
                        HintSegments(hints[h]) = path \o ItemKeys(items[i]))
                    \/ NodesSorted(items[i].val.list)
              [] OTHER -> TRUE

\* the hints registered for the resource that a top-level item is
HintsOfItem(item) ==
    IF /\ Len(item.keys) = 3
       /\ ItemKey(item) = kResource
       /\ <<ItemKeys(item)[2], ItemKeys(item)[3]>> \in DOMAIN vHints
    THEN vHints[<<ItemKeys(item)[2], ItemKeys(item)[3]>>]
    ELSE <<>>

\* C9: with sort on, a list without a hint that names one of its keys is in
\* non-decreasing order of its children's printed text; in a container with
\* such a hint the items of the hinted key are first and the others follow in
\* that order.
C9_SiblingsOrdered ==
    (visitPc = "visited" /\ vSort) =>
        /\ ItemsSorted(vOut)
        /\ \A i \in DOMAIN vOut :
            vOut[i].val.k = "otype" =>
                ContainerOrdered(vOut[i].val.items, <<>>, HintsOfItem(vOut[i]))

\* ---------------------------------------------------------- 0.12 rewrite

\* a line of the form <key> = { : what precedes " = {" is the key, what
\* follows may close the block on the same line
OpensAssign(line) == Len(Split(TrimSpace(line), AssignBrace)) > 1
AssignKey(line) == TrimSpace(Split(TrimSpace(line), AssignBrace)[1])
EndsWithBrace(line) == HasSuffix(TrimSpace(line), <<"{">>)
StartsWithBrace(line) == HasPrefix(TrimSpace(line), <<"}">>)

\* the blocks open before each line, read off the text's own structure: an
\* entry is the key of a <key> = { block, the empty text for a block opened
\* in another way; the lines of a heredoc open and close nothing.
\* Scan[i] is [open, marker, paths] after the first i lines.
OpenBlocks(lines) ==
    LET Scan[i \in 0..Len(lines)] ==
            IF i = 0 THEN [open |-> <<>>, marker |-> <<>>, at |-> <<>>]
            ELSE LET before == Scan[i - 1]
                     line == lines[i]
                 IN  IF before.marker # <<>>
                     THEN [open |-> before.open,
                           marker |-> IF TrimSpace(line) = before.marker THEN <<>>
                                      ELSE before.marker,
                           at |-> Append(before.at, [heredoc |-> TRUE, open |-> before.open])]
                     ELSE [open |->
                             IF StartsWithBrace(line)
                             THEN SubSeq(before.open, 1, Len(before.open) - 1)
                             ELSE IF EndsWithBrace(line)
                             THEN Append(before.open,
                                         IF OpensAssign(line) THEN AssignKey(line) ELSE <<>>)
                             ELSE before.open,
                           marker |-> HeredocMarker(line),
                           at |-> Append(before.at, [heredoc |-> FALSE, open |-> before.open])]
    IN  Scan[Len(lines)].at

\* the dotted path of a <key> = { line: the keys of the <key> = { blocks
\* around it, then its own key
TruePath(open, line) ==
    Join(Append(SelectSeq(open, LAMBDA key : key # <<>>), AssignKey(line)), <<".">>)

\* the line that C5 expects for lines[i]
ExpectedLine(line, at, mapsObjects) ==
    IF ~at.heredoc /\ OpensAssign(line) /\ TruePath(at.open, line) \notin mapsObjects
    THEN ReplaceAll(line, AssignBrace, SpaceBrace)
    ELSE line

ExpectedLines(lines, mapsObjects) ==
    [i \in DOMAIN lines |-> ExpectedLine(lines[i], OpenBlocks(lines)[i], mapsObjects)]

\* C5: a line <key> = { becomes <key> { exactly when the path made of the
\* keys of the <key> = { blocks open around it and of its own key is not in
\* the map-shape set; every other line is returned as it was.
C5_RewrittenIffNotMapShaped ==
    tfPc = "adjusted" =>
        Split(tfOut, <<"\n">>) = ExpectedLines(Split(tfIn, <<"\n">>), tfMaps)

\* --------------------------------------------------------------- heredoc

\* the literal without its quotes, its escaped newlines made real
Unwrapped(text) == ReplaceAll(SubSeq(text, 2, Len(text) - 1), EscapedNewline, <<"\n">>)

\* the lines between the first and the last, the quotes in them unescaped
HeredocBody(lines) ==
    ReplaceAll(Join(SubSeq(lines, 2, Len(lines) - 1), <<"\n">>), EscapedQuote, <<"\"">>)

\* the token C8 describes for a quoted heredoc
RestoredText(text) ==
    LET lines == Split(Unwrapped(text), <<"\n">>)
        parsed == JsonUnmarshal(HeredocBody(lines))
    IN  IF Len(lines) > 2 /\ parsed.ok
        THEN Join(<<lines[1]>> \o JsonLines(JsonMarshal(parsed.v, "asc"), 0)
                    \o <<lines[Len(lines)]>>, <<"\n">>)
        ELSE Unwrapped(text)

\* C8: a literal that begins with a quoted heredoc marker loses its quotes
\* and gets real newlines for the escaped ones; a JSON body between the first
\* and the last line is serialized again with an indent of two spaces, the
\* two lines kept around it; any other text stays as unwrapped.
C8_HeredocRestored ==
    (hdPc = "handled" /\ HasPrefix(hdIn.text, HeredocPrefix)) =>
        /\ ~hdOut.panic
        /\ hdOut.n.text = RestoredText(hdIn.text)

\* ------------------------------------------------------ pruner: project

ProjectComputed(resourceSchema) ==
    /\ kProject \in DOMAIN resourceSchema.attrs
    /\ resourceSchema.attrs[kProject].computed

RECURSIVE NestedProjectKept(_, _)
\* before and after are one value before and after the cleanup: every
\* mapping nested in it keeps a non-empty "project" with its value
NestedProjectKept(before, after) ==
    CASE before.k = "list" ->
            /\ after.k = "list"
            /\ Len(after.elems) = Len(before.elems)
            /\ \A i \in DOMAIN before.elems :
                    NestedProjectKept(before.elems[i], after.elems[i])
      [] before.k = "map" ->
            /\ after.k = "map"
            /\ \A key \in DOMAIN before.m :
                    ~ContractZeroValue(before.m[key]) =>
                        /\ key \in DOMAIN after.m
                        /\ IF key = kProject
                           THEN after.m[key] = before.m[key]
                           ELSE NestedProjectKept(before.m[key], after.m[key])
      [] OTHER -> TRUE

\* C11: CleanUpOptionalEmptyAttributes removes the root key "project" whatever
\* its value when the schema declares a computed attribute "project"; when
\* the schema declares none, a root "project" that the optional-zero rule
\* does not cover stays with its value; and a non-empty "project" inside a
\* nested block is never removed.
C11_ProjectException ==
    (prunePc = "pruned" /\ ~itemIn.isnil /\ rSchema # Absent) =>
        /\ ProjectComputed(rSchema) => kProject \notin DOMAIN rItem.m
        /\ ( /\ ~ProjectComputed(rSchema)
             /\ kProject \in DOMAIN itemIn.m
             /\ ~(IsOptionalAttr(rSchema, kProject)
                    /\ ContractZeroValue(itemIn.m[kProject])) ) =>
                ( /\ kProject \in DOMAIN rItem.m
                  /\ rItem.m[kProject] = itemIn.m[kProject] )
        /\ \A key \in DOMAIN itemIn.m \ {kProject} :
                ~ContractZeroValue(itemIn.m[key]) =>
                    /\ key \in DOMAIN rItem.m
                    /\ NestedProjectKept(itemIn.m[key], rItem.m[key])

\* a computed root "project" with a value was deleted while a block of the
\* list under blk holds a "project" of its own
C11_Witness ==
    /\ prunePc = "pruned"
    /\ ~itemIn.isnil
    /\ rSchema # Absent
    /\ ProjectComputed(rSchema)
    /\ kProject \in DOMAIN itemIn.m
    /\ itemIn.m[kProject] = StrV(tX)
    /\ kProject \notin DOMAIN rItem.m
    /\ kBlk \in DOMAIN itemIn.m
    /\ itemIn.m[kBlk].k = "list"
    /\ Len(itemIn.m[kBlk].elems) > 0
    /\ itemIn.m[kBlk].elems[1].k = "map"
    /\ kProject \in DOMAIN itemIn.m[kBlk].elems[1].m
    /\ kProject \in DOMAIN rItem.m[kBlk].elems[1].m

\* ------------------------------------------------------------ conversion

\* C12: after a ConvertTFstate that returned no error, an optional attribute
\* that the bag holds with the empty string and whose key matches a pattern
\* of AllowEmptyValues is in r.Item (unless IgnoreKeys removed it from the
\* bag).
C12_AllowEmptyValuesExempt ==
    (prunePc = "converted" /\ ~convOut.err /\ ~convOut.panic) =>
        \A key \in DOMAIN rFields.attributes.m :
            ( /\ rFields.attributes.m[key] = <<>>
              /\ IsOptionalAttr(rSchema, key)
              /\ MatchesAny(CompiledAllowEmptyValues(rFields.allowEmptyValues), key)
              /\ ~MatchesAny(rFields.ignoreKeys, key) ) =>
                key \in DOMAIN rItem.m

\* ------------------------------------------------------------- map shapes

\* the path that a key of the bag ending in ".%" stands for: the key without
\* the suffix and without its numeric segments
MapShapePath(key) ==
    Join(SelectSeq(Split(TrimSuffix(key, MapCountSuffix), <<".">>),
                   LAMBDA segment : ~IsInteger(segment)),
         <<".">>)

\* the paths of the map-count keys of the resources that are not duplicates
MapShapePaths(list) ==
    LET first == FirstOccurrences(list)
    IN  UNION {{MapShapePath(key) : key \in {k \in first[i].attrs : HasSuffix(k, MapCountSuffix)}} :
                    i \in DOMAIN first}

\* C13: the map-shape set that HclPrintResource has assembled holds exactly the
\* index-stripped paths of the attribute keys ending in ".%" of the resources
\* that are not duplicates.
C13_MapShapesRecorded ==
    /\ Made(runs.hclA) => runs.hclA.built.mapsObjects = MapShapePaths(argResources)
    /\ Made(runs.hclB) => runs.hclB.built.mapsObjects = MapShapePaths(argResources)
    /\ Made(runs.hclP) => runs.hclP.built.mapsObjects = MapShapePaths(permuted)

\* two resources were assembled, one with the map l and one with the map e in
\* the block 10 of the set g
C13_Witness ==
    /\ Made(runs.hclB)
    /\ Len(argResources) = 2
    /\ runs.hclB.built.mapsObjects = {kL, <<"g", ".", "e">>}

\* a duplicate with a map-count key was dropped and its path is not recorded
C13_WitnessDuplicate ==
    /\ Made(runs.hclA)
    /\ Len(argResources) = 2
    /\ ~DistinctNames(argResources)
    /\ kL \o MapCountSuffix \in argResources[2].attrs
    /\ runs.hclA.built.mapsObjects = {}

\* ---------------------------------------------------- pruner: recursion

RECURSIVE PrunedAtEveryDepth(_, _)
\* data after a cleanup that deletes what cleanOptionalEmptyAttributes deletes
\* and goes into every block instance under a block-type key, in a list of
\* blocks and in a block stored as a mapping
PrunedAtEveryDepth(data, blockSchema) ==
    [key \in DOMAIN data \ DeletedKeys(data, blockSchema) |->
        IF key \in DOMAIN blockSchema.blocks
        THEN CASE data[key].k = "list" ->
                    [data[key] EXCEPT !.elems =
                        [i \in DOMAIN data[key].elems |->
                            IF data[key].elems[i].k = "map"
                            THEN [data[key].elems[i] EXCEPT !.m =
                                    PrunedAtEveryDepth(data[key].elems[i].m,
                                                       blockSchema.blocks[key])]
                            ELSE data[key].elems[i]]]
               [] data[key].k = "map" /\ ~data[key].isnil ->
                    [data[key] EXCEPT !.m =
                        PrunedAtEveryDepth(data[key].m, blockSchema.blocks[key])]
               [] OTHER -> data[key]
        ELSE data[key]]

\* C14: after the cleanup every block instance under a key that the schema
\* declares as a block type, in a list of blocks or stored directly as a
\* mapping, has been cleaned with the schema of that block type, at every
\* depth.
C14_RecursesIntoEveryBlock ==
    (prunePc = "pruned" /\ cleanIn # Absent) =>
        rItem.m = PrunedAtEveryDepth(cleanIn.m, rSchema)

\* ------------------------------------------------------------ hint scope

\* the items of the file that are not the resource (type, name)
OtherItems(items, hinted) ==
    {items[i] : i \in {j \in DOMAIN items :
        ~(/\ Len(items[j].keys) >= 3
          /\ ItemKey(items[j]) = kResource
          /\ <<ItemKeys(items[j])[2], ItemKeys(items[j])[3]>> \in hinted)}}

\* the file after a visit that knows no hint
VisitedWithoutHints == visitObjectList(vNodes, [sort |-> vSort, hints |-> EmptyMap], <<>>)

\* C15: every resource with another type or another name than the one a hint
\* is registered for, and every provider block, comes out of the visit as it
\* does when no hint is registered at all.
C15_HintsScopedToResource ==
    visitPc = "visited" =>
        OtherItems(vOut, DOMAIN vHints) = OtherItems(VisitedWithoutHints, DOMAIN vHints)

\* a hint changed the order in the body of t.n, and t.m, u.n and the provider
\* block are in the file
C15_Witness ==
    /\ visitPc = "visited"
    /\ vSort
    /\ DOMAIN vHints = {<<tT, nN>>}
    /\ ResourceBody(vOut, tT, nN) # ResourceBody(VisitedWithoutHints, tT, nN)
    /\ Cardinality(OtherItems(vOut, DOMAIN vHints)) = 3

\* ---------------------------------------------------------------- keys

\* the text between the quotes of a quoted key
BetweenQuotes(text) == SubSeq(text, 2, Len(text) - 1)

\* C16: visitObjectItem replaces the first key, a quoted text, by the text
\* between its quotes exactly when all its characters are letters, digits, "-"
\* or "_" and it does not begin with "--"; any other first key keeps its
\* quotes, and so does every further key.
C16_KeyNormalized ==
    visitPc = "itemVisited" =>
        /\ vOut[1].keys[1] =
                IF /\ \A i \in DOMAIN BetweenQuotes(vNodes[1].keys[1]) :
                        BetweenQuotes(vNodes[1].keys[1])[i]
                            \in LowerCase \cup UpperCase \cup DigitChars \cup {"-", "_"}
                   /\ ~HasPrefix(BetweenQuotes(vNodes[1].keys[1]), <<"-", "-">>)
                THEN BetweenQuotes(vNodes[1].keys[1])
                ELSE vNodes[1].keys[1]
        /\ \A i \in 2..Len(vNodes[1].keys) : vOut[1].keys[i] = vNodes[1].keys[i]

\* the first key "a-1" lost its quotes, the second key kept them
C16_Witness ==
    /\ visitPc = "itemVisited"
    /\ vNodes[1].keys = <<Quote(<<"a", "-", "1">>), Quote(kA)>>
    /\ vOut[1].keys = <<<<"a", "-", "1">>, Quote(kA)>>

\* the key "--a" kept its quotes
C16_WitnessDashes ==
    /\ visitPc = "itemVisited"
    /\ vNodes[1].keys[1] = Quote(<<"-", "-", "a">>)
    /\ vOut[1].keys[1] = Quote(<<"-", "-", "a">>)


\* ------------------------------------------------------------ blank lines

ResourceLine(line) == HasPrefix(line, kResource \o <<" ">>)

ClosingLine(line) == line # <<>> /\ line[Len(line)] = "}"

\* a blank line, and one only, stands between a closing brace and the resource
\* line after it
OneBlankBeforeResources(text) ==
    LET lines == Split(text, <<"\n">>)
    IN  \A i \in DOMAIN lines :
            (ResourceLine(lines[i]) /\ i > 1) =>
                /\ i > 2
                /\ lines[i - 1] = <<>>
                /\ ClosingLine(lines[i - 2])

\* C17: after hclPrint's blank-line step the text has no two blank lines in a
\* row, however many newlines the printer wrote in a row, and one blank line
\* stands between a closing brace line and the resource block after it.
C17_BlankLinePolicy ==
    tfPc = "collapsed" =>
        /\ ~Contains(tfOut, <<"\n", "\n", "\n">>)
        /\ OneBlankBeforeResources(tfOut)

\* the same for a printer text with at most four newlines in a row
C17_UpToFourNewlines ==
    (tfPc = "collapsed" /\ ~Contains(tfIn, <<"\n", "\n", "\n", "\n", "\n">>)) =>
        /\ ~Contains(tfOut, <<"\n", "\n", "\n">>)
        /\ OneBlankBeforeResources(tfOut)



\* ------------------------------------------------------------ 0.13 rewrite

\* the first line with a labeled required_providers header, 0 without one
HeaderLine(lines) ==
    LET hits == {i \in DOMAIN lines : MatchesRequiredProviders(lines[i])}
    IN  IF hits = {} THEN 0 ELSE SetMin(hits)

RECURSIVE BlockEnd(_, _, _)
\* the line that closes the block open at line j - 1, depth blocks being open
\* there; 0 when the text ends first
BlockEnd(lines, j, depth) ==
    IF j > Len(lines) THEN 0
    ELSE IF MatchesEndBrace(lines[j])
         THEN IF depth = 1 THEN j ELSE BlockEnd(lines, j + 1, depth - 1)
    ELSE IF HasSuffix(lines[j], <<"{">>) THEN BlockEnd(lines, j + 1, depth + 1)
    ELSE BlockEnd(lines, j + 1, depth)

\* the body lines of the block whose header is line i
BlockBody(lines, i) ==
    IF HasSuffix(lines[i], <<"{", "}">>) \/ BlockEnd(lines, i + 1, 1) = 0 THEN <<>>
    ELSE SubSeq(lines, i + 1, BlockEnd(lines, i + 1, 1) - 1)

\* the label of the header line
HeaderLabel(line) == ReplaceAll(Split(TrimSpace(line), <<" ">>)[2], <<"\"">>, <<>>)

NonBlank(lines) == SelectSeq(lines, LAMBDA l : l # <<>>)

InnerClose == <<"\t", "\t", "}">>

\* the rewritten block: the header without its label, the inner map's opening
\* line, the body one level deeper, the inner map's closing brace
Restructured(lines, out, i) ==
    LET closes == {e \in (i + 2)..Len(out) : out[e] = InnerClose}
        body == BlockBody(lines, i)
    IN  /\ Len(out) > i
        /\ out[i] = <<"\t">> \o kRequiredProviders \o <<" ", "{">>
        /\ out[i + 1] = <<"\t", "\t">> \o HeaderLabel(lines[i]) \o <<" ", "=", " ", "{">>
        /\ closes # {}
        /\ NonBlank(SubSeq(out, i + 2, SetMin(closes) - 1))
            = [j \in DOMAIN body |-> <<"\t">> \o body[j]]

NestedBraces(lines, i) ==
    \E j \in DOMAIN BlockBody(lines, i) : MatchesEndBrace(BlockBody(lines, i)[j])

\* C18: terraform13Adjustments turns a labeled required_providers block into
\* "required_providers {" holding "<name> = {", every line of the block's body
\* one level deeper, and the inner map's closing brace; this with nested
\* braces in the body too.
C18_ProviderBlockRestructured ==
    (tfPc = "returned" /\ ~tfOut.panic /\ HeaderLine(Split(tfIn, <<"\n">>)) > 0) =>
        Restructured(Split(tfIn, <<"\n">>), Split(tfOut.bytes, <<"\n">>),
                     HeaderLine(Split(tfIn, <<"\n">>)))

\* the same for a body without a nested closing brace
C18_FlatBodyRestructured ==
    (/\ tfPc = "returned" /\ ~tfOut.panic /\ HeaderLine(Split(tfIn, <<"\n">>)) > 0
     /\ ~NestedBraces(Split(tfIn, <<"\n">>), HeaderLine(Split(tfIn, <<"\n">>)))) =>
        Restructured(Split(tfIn, <<"\n">>), Split(tfOut.bytes, <<"\n">>),
                     HeaderLine(Split(tfIn, <<"\n">>)))

\* a labeled header and no later line that starts with a closing brace
NoClosingBrace(text) ==
    LET lines == Split(text, <<"\n">>)
    IN  /\ HeaderLine(lines) > 0
        /\ \A e \in (HeaderLine(lines) + 1)..Len(lines) : ~MatchesEndBrace(lines[e])

\* C19: on a text with a labeled required_providers header and no later line
\* that starts with a closing brace, the rewrite ends with an error returned
\* to hclPrint's caller: no scan past the last line, no truncated output.
C19_RewriteErrorReturned ==
    (tfPc = "returned" /\ NoClosingBrace(tfIn)) =>
        /\ ~tfOut.panic
        /\ tfOut.err

\* with a closing brace after the header the rewrite returns a text
C19_ClosedBlockReturns ==
    (tfPc = "returned" /\ ~NoClosingBrace(tfIn)) =>
        /\ ~tfOut.panic
        /\ ~tfOut.err


\* ------------------------------------------------------------ unknown node

RECURSIVE HasUnknown(_)
\* whether visit meets a node of none of its switch's types under n
HasUnknown(n) ==
    CASE n.k = "otype" -> \E i \in DOMAIN n.items : HasUnknown(n.items[i].val)
      [] n.k = "ltype" -> \E i \in DOMAIN n.list : HasUnknown(n.list[i])
      [] n.k = "lit" -> FALSE
      [] OTHER -> TRUE

C20_UnknownNodeKept ==
    (visitPc = "fprint" /\ HasUnknown(ObjectType(vNodes))) => HasUnknown(ObjectType(vOut))


\* ------------------------------------------------------- order of the visit

RECURSIVE SortedOnFinalText(_, _)
\* whether every list under n that visit sorts, n being at currentPath, is in
\* non-decreasing order of the text its children have in the visited tree
SortedOnFinalText(n, currentPath) ==
    CASE n.k = "otype" ->
            /\ ItemsSorted(SelectSeq(n.items,
                    LAMBDA it : ItemKey(it) # UnorderedKey(vHints, currentPath)))
            /\ \A i \in DOMAIN n.items :
                    SortedOnFinalText(n.items[i].val, currentPath \o ItemKeys(n.items[i]))
      [] n.k = "ltype" ->
            /\ \/ isPathOrdered(vHints, currentPath, buildLogicalPath(currentPath))
               \/ NodesSorted(n.list)
            /\ \A j \in DOMAIN n.list :
                    SortedOnFinalText(n.list[j], Append(currentPath, Itoa(j - 1)))
      [] OTHER -> TRUE

\* C21: visit has finished every child of a list (keys normalized, heredocs
\* restored, nested lists ordered) before it sorts the list: every list it
\* sorts is ordered by the text its children have in the end.
C21_ChildrenVisitedFirst ==
    (visitPc = "visited" /\ vSort) => SortedOnFinalText(ObjectType(vOut), <<>>)

\* a sorted list whose children's order by their text before the visit is
\* another one: the quoted key "b c" stands after the key a in the input
C21_Witness ==
    /\ visitPc = "visited" /\ vSort
    /\ ~ItemsSorted(ResourceBody(vNodes, tT, nN))
    /\ \E i \in DOMAIN ResourceBody(vOut, tT, nN) :
            /\ ResourceBody(vOut, tT, nN)[i].keys[1] = Quote(kBC)
            /\ i < Len(ResourceBody(vOut, tT, nN))


\* ------------------------------------------------------- additional fields

\* the decoded attributes with every additional field put over them
MergedFields(decoded, additionalFields) ==
    [key \in DOMAIN decoded \cup DOMAIN additionalFields |->
        IF key \in DOMAIN additionalFields THEN additionalFields[key] ELSE decoded[key]]

\* the parser's map as a mapping: a nil map has no entry
DecodedMap(parsed) == IF parsed.attributes.isnil THEN EmptyMap ELSE parsed.attributes.m

ItemIsMerged ==
    /\ ~convOut.panic
    /\ ~convOut.err
    /\ rItem.k = "map" /\ ~rItem.isnil
    /\ rItem.m = MergedFields(DecodedMap(ParsedState(rFields, rSchema)),
                              rFields.additionalFields)

\* C22: whenever the parser succeeds, a nil or empty map included, ParseTFstate
\* completes and r.Item is a non-nil mapping: the decoded attributes with every
\* AdditionalFields entry added, the additional field winning on a shared key.
C22_AdditionalFieldsMerged ==
    (prunePc = "parsed" /\ ~ParsedState(rFields, rSchema).err) => ItemIsMerged

\* the same when the parser's map is not nil
C22_MergedIntoNonNil ==
    (/\ prunePc = "parsed" /\ ~ParsedState(rFields, rSchema).err
     /\ ~ParsedState(rFields, rSchema).attributes.isnil) => ItemIsMerged

\* the same when the parser's map is nil and there is no additional field
C22_NilWithoutFields ==
    (/\ prunePc = "parsed" /\ ~ParsedState(rFields, rSchema).err
     /\ ParsedState(rFields, rSchema).attributes.isnil
     /\ DOMAIN rFields.additionalFields = {}) => ItemIsMerged

\* ------------------------------------------------------------ output files

IsTfName(name) == HasSuffix(name, kTfSuffix) \/ HasSuffix(name, kTfJsonSuffix)

\* the files of the earlier run that this run did not write: the .tf and
\* .tf.json files of the output directory but the special ones, and the files
\* of the data directory
StaleFiles ==
    { FilePath("out", e.name) :
        e \in { x \in outFiles.outBefore :
                    /\ ~x.isDir /\ IsTfName(x.name) /\ x.name \notin SpecialFiles
                    /\ FilePath("out", x.name) \notin outFiles.written } }
    \cup { FilePath("data", e.name) :
        e \in { x \in outFiles.dataBefore :
                    ~x.isDir /\ FilePath("data", x.name) \notin outFiles.written } }

\* the files that were in the directories before the call and are not now
FilesGone ==
    { FilePath("out", e.name) : e \in {x \in outFiles.outBefore \ outFiles.outDir : ~x.isDir} }
    \cup { FilePath("data", e.name) : e \in {x \in outFiles.dataBefore \ outFiles.dataDir : ~x.isDir} }

C23_WitnessFailure ==
    /\ outFiles # Absent
    /\ outFiles.pc = "returned" /\ outFiles.err
    /\ outFiles.written # {}
    /\ getExistingTfFiles(outFiles.outBefore) # {}

\* ------------------------------------------------------------ prefix stack

\* terraform12Adjustments' prefix at the top of each turn of its loop
PrefixAtLines(lines, mapsObjects) ==
    LET St[i \in 0..Len(lines)] ==
            IF i = 0 THEN [lines |-> lines, prefix |-> <<>>]
            ELSE Tf12Step(St[i - 1], i, mapsObjects)
    IN  [i \in DOMAIN lines |-> St[i - 1].prefix]

\* the keys of the <key> = { blocks that are open at each line
OpenAssignKeys(lines) ==
    [i \in DOMAIN lines |-> SelectSeq(OpenBlocks(lines)[i].open, LAMBDA key : key # <<>>)]

\* C24: at every line that terraform12Adjustments processes its prefix stack
\* is the sequence of the keys of the <key> = { blocks opened and not yet
\* closed at that line; closing braces of other blocks and of heredoc bodies
\* and one-line blocks do not bring it out of step.
C24_PrefixStackInStep ==
    tfPc = "adjusted" =>
        PrefixAtLines(Split(tfIn, <<"\n">>), tfMaps) = OpenAssignKeys(Split(tfIn, <<"\n">>))

\* the same for a text without a one-line block and without a heredoc
C24_InStepOnPlainBlocks ==
    (/\ tfPc = "adjusted"
     /\ ~Contains(tfIn, <<"{", "}">>)
     /\ ~Contains(tfIn, <<"<", "<">>)) =>
        PrefixAtLines(Split(tfIn, <<"\n">>), tfMaps) = OpenAssignKeys(Split(tfIn, <<"\n">>))

\* ------------------------------------------------- one preserved key

\* whether hints[h] is the first of the hints that name a key of its container
FirstOfContainer(hints, h) ==
    \A g \in 1..(h - 1) : HintParent(hints[g]) # HintParent(hints[h])

\* the key that is kept in input order in the container at path: the key of
\* the first hint whose parent path is path, the empty text without one
PreservedKey(hints, path) ==
    LET matching == {h \in DOMAIN hints : HintParent(hints[h]) = path}
    IN  IF matching = {} THEN <<>> ELSE HintKey(hints[SetMin(matching)])

RECURSIVE BlockRuns(_, _, _)
\* for the items of a container at path: the run of repeated blocks that the
\* hint names, in this container or below it
BlockRuns(items, path, hint) ==
    LET blocks == SelectSeq(items, LAMBDA it : ItemKey(it) = HintKey(hint) /\ it.val.k = "otype")
    IN  (IF path = HintParent(hint) /\ blocks # <<>>
         THEN {[i \in DOMAIN blocks |-> Canonical(blocks[i].val)]} ELSE {})
        \cup UNION { BlockRuns(items[i].val.items, path \o ItemKeys(items[i]), hint) :
                        i \in {j \in DOMAIN items : items[j].val.k = "otype"} }

RECURSIVE OthersSorted(_, _, _)
\* in the container at path and in those below it the items of every key but
\* the preserved one are in the order of their text
OthersSorted(items, path, hints) ==
    /\ ItemsSorted(SelectSeq(items, LAMBDA it : ItemKey(it) # PreservedKey(hints, path)))
    /\ \A i \in {j \in DOMAIN items : items[j].val.k = "otype"} :
            OthersSorted(items[i].val.items, path \o ItemKeys(items[i]), hints)

\* whether another of the hints names a different key of the same container
SharesContainer(hints, h) ==
    \E g \in DOMAIN hints :
        HintParent(hints[g]) = HintParent(hints[h]) /\ HintKey(hints[g]) # HintKey(hints[h])

\* the rule of C25 for the resource tn
OnePreservedKey(tn) ==
    LET hints == vHints[tn]
    IN  /\ \A h \in DOMAIN hints :
                (FirstOfContainer(hints, h) /\ SharesContainer(hints, h)) =>
                    BlockRuns(ResourceBody(vOut, tn[1], tn[2]), <<>>, hints[h])
                        = BlockRuns(ResourceBody(vNodes, tn[1], tn[2]), <<>>, hints[h])
        /\ OthersSorted(ResourceBody(vOut, tn[1], tn[2]), <<>>, hints)

\* C25: of several hints that name keys of one container the first in the
\* declared order is the one whose items keep their input order; the items of
\* every other key, hinted or not, are sorted together.
C25_OnePreservedKey ==
    (visitPc = "visited" /\ vSort) =>
        \A tn \in HintedResources : OnePreservedKey(tn)

\* the same for the resources whose hints all have two segments or more
C25_BelowTheBody ==
    (visitPc = "visited" /\ vSort) =>
        \A tn \in HintedResources :
            \/ \E h \in DOMAIN vHints[tn] : Len(HintSegments(vHints[tn][h])) = 1
            \/ OnePreservedKey(tn)

\* two hints on the block b were given and the blocks of the second are sorted
C25_SecondHintSorted ==
    /\ visitPc = "visited" /\ vSort
    /\ \E tn \in HintedResources :
            /\ Len(vHints[tn]) = 2
            /\ \A h \in 1..2 : Len(HintSegments(vHints[tn][h])) = 2
            /\ SharesContainer(vHints[tn], 1)
            /\ BlockRuns(ResourceBody(vOut, tn[1], tn[2]), <<>>, vHints[tn][2])
                    # BlockRuns(ResourceBody(vNodes, tn[1], tn[2]), <<>>, vHints[tn][2])

\* ------------------------------------------------ the shared map-shape set

\* a line <key> { with a word for its key
OpensBlock(line) ==
    LET a == SkipChars(line, 1, SpaceChars)
        b == SkipChars(line, a, WordChars)
    IN  b > a /\ SubSeq(line, b, Len(line)) = SpaceBrace

\* the line as the formatter printed it, before the 0.12 rewrite
Unrewritten(line) ==
    IF OpensBlock(line) THEN ReplaceAll(line, SpaceBrace, AssignBrace) ELSE line

\* the resources of the list that HclPrintResource does not skip as duplicates
FirstOfName(resources) ==
    {i \in DOMAIN resources :
        \A j \in 1..(i - 1) :
            <<resources[j].type, resources[j].name>> # <<resources[i].type, resources[i].name>>}

\* the paths that the attributes of one resource record
PathsOf(res) ==
    {StripIndexes(TrimSuffix(key, MapCountSuffix)) :
        key \in {k \in res.attrs : HasSuffix(k, MapCountSuffix)}}

\* the lines of the printed text in which a block at a path of the set is
\* opened
LinesAt(lines, paths) ==
    LET before == [i \in DOMAIN lines |-> Unrewritten(lines[i])]
        at == OpenBlocks(before)
    IN  {i \in DOMAIN lines :
            /\ ~at[i].heredoc
            /\ OpensAssign(before[i])
            /\ TruePath(at[i].open, before[i]) \in paths}

\* what C26 says of one call's result
SharedByAll(resources, run) ==
    (run # Absent /\ ~run.err /\ ~run.panic /\ argOutput = kHcl) =>
        LET lines == Split(run.bytes, <<"\n">>)
        IN  \A r \in FirstOfName(resources) :
                \A i \in LinesAt(lines, PathsOf(resources[r])) : OpensAssign(lines[i])

BagOfSeq(seq) ==
    [e \in {seq[i] : i \in DOMAIN seq} |-> Cardinality({i \in DOMAIN seq : seq[i] = e})]

RECURSIVE ShapeAfter(_)
\* a node after the visit without the order of its children: every container
\* is the bag of its children's shapes
ShapeAfter(n) ==
    CASE n.k = "otype" ->
            [items |-> BagOfSeq([i \in DOMAIN n.items |->
                            [keys |-> n.items[i].keys, val |-> ShapeAfter(n.items[i].val)]])]
      [] n.k = "ltype" -> [list |-> BagOfSeq([i \in DOMAIN n.list |-> ShapeAfter(n.list[i])])]
      [] n.k = "lit" -> [text |-> n.text]
      [] OTHER -> [other |-> n]

RECURSIVE ShapeBefore(_)
\* the same of a node before the visit, its items' first keys and its
\* literals taken as the visit rewrites them
ShapeBefore(n) ==
    CASE n.k = "otype" ->
            [items |-> BagOfSeq([i \in DOMAIN n.items |->
                            [keys |-> [j \in DOMAIN n.items[i].keys |->
                                        IF j = 1 THEN NormalizeKey(n.items[i].keys[j])
                                        ELSE n.items[i].keys[j]],
                             val |-> ShapeBefore(n.items[i].val)]])]
      [] n.k = "ltype" -> [list |-> BagOfSeq([i \in DOMAIN n.list |-> ShapeBefore(n.list[i])])]
      [] n.k = "lit" -> [text |-> handleHeredoc(n).n.text]
      [] OTHER -> [other |-> n]

\* C27: the visit only reorders: every object list and every value list has
\* after the visit the children it had before, each as often as before,
\* whatever the hints and with sort on or off.
C27_OnlyReorders ==
    visitPc = "visited" => ShapeAfter(ObjectType(vOut)) = ShapeBefore(ObjectType(vNodes))

\* a visit with sort on and a hint on the block b that changed the order of
\* the items
C27_Witness ==
    /\ visitPc = "visited" /\ vSort
    /\ \E tn \in HintedResources :
            \E h \in DOMAIN vHints[tn] :
                /\ Len(HintSegments(vHints[tn][h])) = 2
                /\ BlockRuns(ResourceBody(vOut, tn[1], tn[2]), <<>>, vHints[tn][h]) # {}
    /\ vOut # visitObjectList(vNodes, [sort |-> FALSE, hints |-> EmptyMap], <<>>)

\* ------------------------------------------------- 0.13 rewrite: content

\* the braces of a text are as many opening as closing
Balanced(text) ==
    Cardinality(Matches(text, <<"{">>)) = Cardinality(Matches(text, <<"}">>))

\* the lines of a text without their indentation, the blank ones left out
Flush(lines) == NonBlank([i \in DOMAIN lines |-> TrimSpace(lines[i])])

\* the lines of the input other than the header at line i; the closing brace
\* of a block with an empty body stands on the header line
OtherLines(lines, i) ==
    Flush(SubSeq(lines, 1, i - 1)
          \o (IF HasSuffix(lines[i], <<"{", "}">>) THEN << <<"}">> >> ELSE <<>>)
          \o SubSeq(lines, i + 1, Len(lines)))

RECURSIVE Without(_, _)
\* seq without its elements at the positions of drop
Without(seq, drop) ==
    IF seq = <<>> THEN <<>>
    ELSE LET front == Without(SubSeq(seq, 1, Len(seq) - 1), drop)
         IN  IF Len(seq) \in drop THEN front ELSE Append(front, seq[Len(seq)])

\* flush is the input's other lines, once each and in their order, with the
\* three lines of the rewrite among them
ThreeLinesAdded(flush, others, label) ==
    \E p \in {x \in DOMAIN flush : flush[x] = kRequiredProviders \o <<" ", "{">>} :
        \E q \in {x \in DOMAIN flush : x > p /\ flush[x] = label \o <<" ", "=", " ", "{">>} :
            \E r \in {x \in DOMAIN flush : x > q /\ flush[x] = <<"}">>} :
                Without(flush, {p, q, r}) = others

ContentKept(lines, out, i) ==
    ThreeLinesAdded(Flush(out), OtherLines(lines, i), HeaderLabel(lines[i]))

\* what C28 says of one input
ContentAndBalance(text) ==
    LET lines == Split(text, <<"\n">>)
    IN  /\ ~tfOut.panic
        /\ IF HeaderLine(lines) = 0 THEN tfOut.bytes = text
           ELSE /\ ContentKept(lines, Split(tfOut.bytes, <<"\n">>), HeaderLine(lines))
                /\ Balanced(tfOut.bytes)

\* C28: on an input with balanced braces and a labeled required_providers
\* header, its body empty or not, terraform13Adjustments returns every other
\* line once and in order, the block's closing brace among them, and a text
\* with balanced braces; an input without the header comes back unchanged.
C28_ContentAndBalanceKept ==
    (tfPc = "returned" /\ Balanced(tfIn)) => ContentAndBalance(tfIn)

\* the same for the inputs whose header line does not close its block
C28_KeptOnOpenHeader ==
    (/\ tfPc = "returned" /\ Balanced(tfIn)
     /\ \A i \in DOMAIN Split(tfIn, <<"\n">>) :
            MatchesRequiredProviders(Split(tfIn, <<"\n">>)[i])
                => ~HasSuffix(Split(tfIn, <<"\n">>)[i], <<"{", "}">>)) =>
        ContentAndBalance(tfIn)

\* a block with a nested closing brace in its body was rewritten
C28_NestedBodyRewritten ==
    /\ tfPc = "returned" /\ Balanced(tfIn) /\ ~tfOut.panic
    /\ HeaderLine(Split(tfIn, <<"\n">>)) > 0
    /\ NestedBraces(Split(tfIn, <<"\n">>), HeaderLine(Split(tfIn, <<"\n">>)))

\* an input without the header was returned
C28_NoHeaderReturned ==
    /\ tfPc = "returned" /\ HeaderLine(Split(tfIn, <<"\n">>)) = 0
    /\ tfOut.bytes = tfIn

\* ------------------------------------------------------- heredoc: totality

\* the literal's text has an escaped newline after the marker
HasSecondLine(text) == Contains(text, EscapedNewline)

\* C29: handleHeredoc returns without a runtime fault on every literal that
\* begins with a quoted heredoc marker, a single line such as "<<" or "<<EOF"
\* included, and leaves every other literal as it was.
C29_HandleHeredocTotal ==
    hdPc = "handled" =>
        /\ ~hdOut.panic
        /\ (~HasPrefix(hdIn.text, HeredocPrefix) => hdOut.n = hdIn)

\* the same without the literals of one line
C29_TotalOnSeveralLines ==
    (hdPc = "handled" /\ (HasPrefix(hdIn.text, HeredocPrefix) => HasSecondLine(hdIn.text))) =>
        /\ ~hdOut.panic
        /\ (~HasPrefix(hdIn.text, HeredocPrefix) => hdOut.n = hdIn)

\* a literal without the marker was handled
C29_PlainLiteralKept ==
    hdPc = "handled" /\ ~HasPrefix(hdIn.text, HeredocPrefix) /\ hdOut.n = hdIn

\* ------------------------------------------------------------ path stack

\* the calls made under the file's items that are resources
InResource(calls) ==
    {c \in calls : c.top > 0 /\ Len(vNodes[c.top].keys) = 3
                             /\ ItemKey(vNodes[c.top]) = kResource}

\* C30: every visit call returns with currentPath as it found it, so the path
\* is empty after the file is visited; and during the visit of what a
\* resource holds its first three entries are "resource", the type and the
\* name.
C30_PathStackBalanced ==
    visitPc = "visited" =>
        /\ \A c \in vStack.calls : c.exit = c.entry
        /\ vStack.currentPath = <<>>
        /\ \A c \in InResource(vStack.calls) :
                c.entry # <<>> =>
                    /\ Len(c.entry) >= 3
                    /\ SubSeq(c.entry, 1, 3) = ItemKeys(vNodes[c.top])

\* a resource with a list in a block was visited: calls were entered four and
\* more entries deep, under keys and under an index
C30_Witness ==
    /\ visitPc = "visited"
    /\ \E c \in InResource(vStack.calls) :
            /\ Len(c.entry) >= 5
            /\ IsInteger(c.entry[Len(c.entry)])
            /\ SubSeq(c.entry, 1, 3) = <<kResource, tT, nN>>

====
